---- MODULE Spec2Model ----
(***************************************************************************)
(* ticktick-mcp: the REST client (api.py) and the tool adapter (server.py) *)
(* as a state machine, and the setup helper get_token.py beside them.      *)
(*                                                                         *)
(* A tool invocation is a coroutine.  It runs from its entry to the first  *)
(* `await self._request(...)`, is suspended while the HTTP exchange is in  *)
(* flight, and is resumed with the outcome of the exchange; this repeats   *)
(* until the handler returns or raises.  One step of the model is one such *)
(* run between two suspension points.                                      *)
(*                                                                         *)
(* Python values: a dict is a function on strings, a list is a sequence,   *)
(* an Optional is None (the empty sequence) or a one-element sequence.     *)
(***************************************************************************)
EXTENDS Integers, Sequences, FiniteSets, TLC

VARIABLES
    env,      \* os.environ["TICKTICK_ACCESS_TOKEN"]: None or <<token>>
    _api,     \* server.py module global: None or <<client>>
    store,    \* the remote service's records (projects and their tasks)
    calls,    \* calls[c]: the invocation of call_tool running for caller c
    dotenv,   \* the text of the file .env beside get_token.py
    setup     \* the run of get_token.py: its position, globals and locals

vars == <<env, _api, store, calls, dotenv, setup>>

----------------------------------------------------------------------------
(* Python helpers *)

None == <<>>

Some(v) == <<v>>

EmptyDict == <<>>

\* d.get(k, default)
Get(d, k, default) == IF k \in DOMAIN d THEN d[k] ELSE default

\* d.get(k)
Opt(d, k) == IF k \in DOMAIN d THEN Some(d[k]) ELSE None

\* d[k] = v
Put(d, k, v) == (k :> v) @@ d

\* truth value of an Optional[str] / Optional[list]
TruthyStr(o) == o # None /\ o[1] # ""

TruthyList(o) == o # None /\ o[1] # <<>>

\* the keys of d other than those in ks
Without(d, ks) == [k \in (DOMAIN d) \ ks |-> d[k]]

----------------------------------------------------------------------------
(* api.py: the HTTP exchange *)

BASE_URL == "https://api.ticktick.com/open/v1"

\* the request timeout, in seconds
Timeout == 30

\* no HTTP response at all: connection failure or timeout
NoResponse == 0

StatusCodes == {200, 204, 401, 403, 404, 500}

Outcomes == StatusCodes \cup {NoResponse}

\* response.is_success, as response.raise_for_status() tests it
IsSuccess(st) == st >= 200 /\ st < 300

StatusText(st) ==
    CASE st = 401 -> "401 Unauthorized"
      [] st = 403 -> "403 Forbidden"
      [] st = 404 -> "404 Not Found"
      [] st = 500 -> "500 Internal Server Error"
      [] OTHER    -> "status"

HTTPStatusError(st) ==
    [type |-> "HTTPStatusError", msg |-> "Client error '" \o StatusText(st) \o "'"]

TransportError == [type |-> "TransportError", msg |-> "All connection attempts failed"]

ValueError(msg) == [type |-> "ValueError", msg |-> msg]

\* str(KeyError(k)) is repr(k)
KeyError(k) == [type |-> "KeyError", msg |-> "'" \o k \o "'"]

\* mutant: the environment is preferred to the parameter
TickTickAPI_EnvironFirst(access_token, environ) ==
    LET token == IF TruthyStr(environ) THEN environ ELSE access_token
    IN  IF ~TruthyStr(token)
        THEN [exc |-> Some(ValueError("TICKTICK_ACCESS_TOKEN is required. Set it in .env file or pass directly.")),
              val |-> None]
        ELSE [exc |-> None,
              val |-> Some([access_token |-> token[1],
                            headers |-> [Authorization |-> "Bearer " \o token[1]]])]

\* TickTickAPI.__init__: the client, or the exception it raises
TickTickAPI(access_token, environ) ==
    LET token == IF TruthyStr(access_token) THEN access_token ELSE environ
    IN  IF ~TruthyStr(token)
        THEN [exc |-> Some(ValueError("TICKTICK_ACCESS_TOKEN is required. Set it in .env file or pass directly.")),
              val |-> None]
        ELSE [exc |-> None,
              val |-> Some([access_token |-> token[1],
                            headers |-> [Authorization |-> "Bearer " \o token[1]]])]

\* the arguments of one `self._request(method, endpoint, json)` call
Req(method, endpoint, json) == [method |-> method, endpoint |-> endpoint, json |-> json]

\* the request _request puts on the wire for them
WireRequest(self, req) ==
    [method  |-> req.method,
     url     |-> <<BASE_URL>> \o req.endpoint,
     headers |-> self.headers,
     json    |-> req.json,
     timeout |-> Timeout]

\* what `await self._request(...)` evaluates to when the exchange ends with
\* outcome st and (for a success with content) response body `body`
Response(st, body) ==
    IF st = NoResponse THEN [exc |-> Some(TransportError), val |-> None]
    ELSE IF ~IsSuccess(st) THEN [exc |-> Some(HTTPStatusError(st)), val |-> None]
    ELSE IF st = 204 THEN [exc |-> None, val |-> EmptyDict]
    ELSE [exc |-> None, val |-> body]

----------------------------------------------------------------------------
(* The state of a coroutine after a run: suspended in an await, returned,  *)
(* or raised.  `frame` holds the locals that are live across the await and *)
(* `frame.at` the await it is suspended in.                                *)

Await(req, frame) == [k |-> "await", req |-> req, frame |-> frame, val |-> None, exc |-> None]

Return(v) == [k |-> "return", req |-> None, frame |-> None, val |-> v, exc |-> None]

Raise(e) == [k |-> "raise", req |-> None, frame |-> None, val |-> None, exc |-> e]

\* `return await self._request(...)`
TailCall(req) == Await(req, [at |-> "tail"])

TailResume(r) == IF r.exc # None THEN Raise(r.exc[1]) ELSE Return(r.val)

\* `v = await inner(...)` inside the method `caller`: the inner coroutine's
\* suspension is the caller's, its exception propagates, and on its return
\* the caller goes on (Continue is defined with the callers, below)
Nested(caller, step) ==
    IF step.k = "await" THEN [step EXCEPT !.frame = Put(step.frame, "caller", caller)] ELSE step

----------------------------------------------------------------------------
(* api.py: reads *)

get_projects == Req("GET", <<"project">>, None)

get_project_data(project_id) == Req("GET", <<"project", project_id, "data">>, None)

\* the project's id in place of its name
Annotate_Id(tasks, project) ==
    [j \in 1..Len(tasks) |-> Put(tasks[j], "_project_name", Get(project, "id", "Unknown"))]

\* lines 74-75: task["_project_name"] = project.get("name", "Unknown")
Annotate(tasks, project) ==
    [j \in 1..Len(tasks) |-> Put(tasks[j], "_project_name", Get(project, "name", "Unknown"))]

\* the head of the loop of get_all_tasks, about to handle projects[i]
get_all_tasks_loop(projects, i, all_tasks) ==
    IF i > Len(projects)
    THEN Return(all_tasks)
    ELSE Await(get_project_data(projects[i]["id"]),
               [at |-> "loop", projects |-> projects, i |-> i, all_tasks |-> all_tasks])

get_all_tasks(project_id) ==
    IF TruthyStr(project_id)
    THEN Await(get_project_data(project_id[1]), [at |-> "single"])
    ELSE Await(get_projects, [at |-> "projects"])

\* mutant: a project whose fetch fails with a status error is fetched again
get_all_tasks_resume_Retry(frame, r) ==
    CASE frame.at = "single" ->
            IF r.exc # None THEN Raise(r.exc[1]) ELSE Return(Get(r.val, "tasks", <<>>))
      [] frame.at = "projects" ->
            IF r.exc # None THEN Raise(r.exc[1]) ELSE get_all_tasks_loop(r.val, 1, <<>>)
      [] frame.at = "loop" ->
            IF r.exc = None
            THEN get_all_tasks_loop(frame.projects, frame.i + 1,
                     frame.all_tasks \o Annotate(Get(r.val, "tasks", <<>>), frame.projects[frame.i]))
            ELSE IF r.exc[1].type = "HTTPStatusError"
            THEN get_all_tasks_loop(frame.projects, frame.i, frame.all_tasks)
            ELSE Raise(r.exc[1])

\* mutant: a failed fetch of the single project gives an empty list, as a
\* failed fetch does in the loop
get_all_tasks_resume_SingleSkipped(frame, r) ==
    CASE frame.at = "single" ->
            IF r.exc = None THEN Return(Get(r.val, "tasks", <<>>))
            ELSE IF r.exc[1].type = "HTTPStatusError" THEN Return(<<>>)
            ELSE Raise(r.exc[1])
      [] frame.at = "projects" ->
            IF r.exc # None THEN Raise(r.exc[1]) ELSE get_all_tasks_loop(r.val, 1, <<>>)
      [] frame.at = "loop" ->
            IF r.exc = None
            THEN get_all_tasks_loop(frame.projects, frame.i + 1,
                     frame.all_tasks \o Annotate(Get(r.val, "tasks", <<>>), frame.projects[frame.i]))
            ELSE IF r.exc[1].type = "HTTPStatusError"
            THEN get_all_tasks_loop(frame.projects, frame.i + 1, frame.all_tasks)
            ELSE Raise(r.exc[1])

get_all_tasks_resume(frame, r) ==
    CASE frame.at = "single" ->
            IF r.exc # None THEN Raise(r.exc[1]) ELSE Return(Get(r.val, "tasks", <<>>))
      [] frame.at = "projects" ->
            IF r.exc # None THEN Raise(r.exc[1]) ELSE get_all_tasks_loop(r.val, 1, <<>>)
      [] frame.at = "loop" ->
            IF r.exc = None
            THEN get_all_tasks_loop(frame.projects, frame.i + 1,
                     frame.all_tasks \o Annotate(Get(r.val, "tasks", <<>>), frame.projects[frame.i]))
            ELSE IF r.exc[1].type = "HTTPStatusError"
            THEN get_all_tasks_loop(frame.projects, frame.i + 1, frame.all_tasks)
            ELSE Raise(r.exc[1])

\* mutant: the scan keeps the last match
RECURSIVE FirstWith_Last(_, _, _, _)
FirstWith_Last(seq, key, value, i) ==
    IF i > Len(seq) THEN None
    ELSE LET later == FirstWith_Last(seq, key, value, i + 1)
         IN  IF later # None THEN later
             ELSE IF Opt(seq[i], key) = Some(value) THEN Some(seq[i])
             ELSE None

\* the first element of seq satisfying Test, as an Optional
RECURSIVE FirstWith(_, _, _, _)
FirstWith(seq, key, value, i) ==
    IF i > Len(seq) THEN None
    ELSE IF Opt(seq[i], key) = Some(value) THEN Some(seq[i])
    ELSE FirstWith(seq, key, value, i + 1)

get_project_by_id(project_id) == Await(get_projects, [at |-> "scan", project_id |-> project_id])

get_project_by_id_resume(frame, r) ==
    IF r.exc # None THEN Raise(r.exc[1])
    ELSE LET found == FirstWith(r.val, "id", frame.project_id, 1)
         IN  IF found # None THEN Return(found[1])
             ELSE Raise(ValueError("Project " \o frame.project_id \o " not found"))

get_project_with_data(project_id) ==
    Nested([m |-> "get_project_with_data", project_id |-> project_id],
           get_project_by_id(project_id))

get_project_with_data_resume(frame, r) ==
    IF r.exc # None THEN Raise(r.exc[1])
    ELSE Return([project |-> frame.project,
                 tasks   |-> Get(r.val, "tasks", <<>>),
                 columns |-> Get(r.val, "columns", <<>>)])

----------------------------------------------------------------------------
(* Python str and datetime *)

\* s[:n]
Slice(s, n) == SubSeq(s, 1, IF Len(s) < n THEN Len(s) ELSE n)

\* s.startswith(p)
StartsWith(s, p) == Len(s) >= Len(p) /\ SubSeq(s, 1, Len(p)) = p

\* the characters of the model's strings, in code point order
Chars == " +-.0123456789:ABCDEFGHIJKLMNOPQRSTUVWXYZ_abcdefghijklmnopqrstuvwxyz"

UpperChars == "ABCDEFGHIJKLMNOPQRSTUVWXYZ"

LowerChars == "abcdefghijklmnopqrstuvwxyz"

\* ord(c), up to an order-preserving renumbering
Ord(c) == CHOOSE i \in 1..Len(Chars) : SubSeq(Chars, i, i) = c

\* s.lower()
RECURSIVE Lower(_)
Lower(s) ==
    IF s = "" THEN ""
    ELSE LET c == SubSeq(s, 1, 1)
             l == IF \E i \in 1..26 : SubSeq(UpperChars, i, i) = c
                  THEN LET i == CHOOSE i \in 1..26 : SubSeq(UpperChars, i, i) = c
                       IN  SubSeq(LowerChars, i, i)
                  ELSE c
         IN  l \o Lower(SubSeq(s, 2, Len(s)))

\* a < b for str
RECURSIVE StrLess(_, _)
StrLess(a, b) ==
    IF b = "" THEN FALSE
    ELSE IF a = "" THEN TRUE
    ELSE LET x == Ord(SubSeq(a, 1, 1))
             y == Ord(SubSeq(b, 1, 1))
         IN  IF x # y THEN x < y
             ELSE StrLess(SubSeq(a, 2, Len(a)), SubSeq(b, 2, Len(b)))

\* s.replace(old, new) for one-character old and new
RECURSIVE Replace(_, _, _)
Replace(s, old, new) ==
    IF s = "" THEN ""
    ELSE (IF SubSeq(s, 1, 1) = old THEN new ELSE SubSeq(s, 1, 1))
         \o Replace(SubSeq(s, 2, Len(s)), old, new)

\* sep in s
Contains(s, sep) == \E i \in 1..Len(s) : SubSeq(s, i, i) = sep

\* s.split(sep)[0]
SplitHead(s, sep) ==
    IF Contains(s, sep)
    THEN LET i == CHOOSE i \in 1..Len(s) :
                      /\ SubSeq(s, i, i) = sep
                      /\ \A j \in 1..(i - 1) : SubSeq(s, j, j) # sep
         IN  SubSeq(s, 1, i - 1)
    ELSE s

IsDigits(s) == \A i \in 1..Len(s) : \E d \in 1..10 : SubSeq("0123456789", d, d) = SubSeq(s, i, i)

RECURSIVE Num(_)
Num(s) ==
    IF s = "" THEN 0
    ELSE 10 * Num(SubSeq(s, 1, Len(s) - 1))
         + (CHOOSE d \in 0..9 : SubSeq("0123456789", d + 1, d + 1) = SubSeq(s, Len(s), Len(s)))

DaysInMonth(y, m) ==
    IF m \in {4, 6, 9, 11} THEN 30
    ELSE IF m = 2 THEN (IF (y % 4 = 0 /\ y % 100 # 0) \/ y % 400 = 0 THEN 29 ELSE 28)
    ELSE 31

\* datetime.fromisoformat(s) for the forms YYYY-MM-DD[*HH[:MM[:SS[.fff[fff]]]]]
\* without offset: None (ValueError) or <<the naive datetime>>
fromisoformat(s) ==
    LET n == Len(s)
        F(i, j) == SubSeq(s, i, j)
        dateOk == /\ n >= 10
                  /\ IsDigits(F(1, 4)) /\ F(5, 5) = "-" /\ IsDigits(F(6, 7))
                  /\ F(8, 8) = "-" /\ IsDigits(F(9, 10))
                  /\ Num(F(1, 4)) >= 1
                  /\ Num(F(6, 7)) \in 1..12
                  /\ Num(F(9, 10)) \in 1..DaysInMonth(Num(F(1, 4)), Num(F(6, 7)))
        timeOk == \/ n = 10
                  \/ /\ n \in {13, 16, 19, 23, 26}
                     /\ IsDigits(F(12, 13)) /\ Num(F(12, 13)) < 24
                     /\ (n >= 16 => F(14, 14) = ":" /\ IsDigits(F(15, 16))
                                    /\ Num(F(15, 16)) < 60)
                     /\ (n >= 19 => F(17, 17) = ":" /\ IsDigits(F(18, 19))
                                    /\ Num(F(18, 19)) < 60)
                     /\ (n > 19 => F(20, 20) = "." /\ IsDigits(F(21, n)))
    IN  IF dateOk /\ timeOk
        THEN Some(<<Num(F(1, 4)), Num(F(6, 7)), Num(F(9, 10)),
                    IF n < 13 THEN 0 ELSE Num(F(12, 13)),
                    IF n < 16 THEN 0 ELSE Num(F(15, 16)),
                    IF n < 19 THEN 0 ELSE Num(F(18, 19)),
                    IF n = 23 THEN 1000 * Num(F(21, 23)) ELSE IF n = 26 THEN Num(F(21, 26)) ELSE 0>>)
        ELSE None

\* a < b for naive datetimes
RECURSIVE TupleLess(_, _, _)
TupleLess(a, b, i) ==
    IF i > Len(a) THEN FALSE
    ELSE IF a[i] # b[i] THEN a[i] < b[i]
    ELSE TupleLess(a, b, i + 1)

\* sorted(list(S)) for a set of str
RECURSIVE Sorted(_)
Sorted(S) ==
    IF S = {} THEN <<>>
    ELSE LET least == CHOOSE x \in S : \A y \in S \ {x} : StrLess(x, y)
         IN  <<least>> \o Sorted(S \ {least})

----------------------------------------------------------------------------
(* api.py: the filters over the aggregate.  `now` is datetime.now(), a    *)
(* naive local date-time written "YYYY-MM-DD HH:MM:SS".                    *)

get_today_tasks == Nested([m |-> "get_today_tasks"], get_all_tasks(None))

today_tasks(all_tasks, now) ==
    LET today == SubSeq(now, 1, 10)
        Keep(task) == LET due_date == Get(task, "dueDate", "")
                      IN  due_date # "" /\ StartsWith(due_date, today)
    IN  SelectSeq(all_tasks, Keep)

get_tasks_by_priority(min_priority) ==
    Nested([m |-> "get_tasks_by_priority", min_priority |-> min_priority], get_all_tasks(None))

\* mutant: the comparison is strict
tasks_by_priority_Strict(all_tasks, min_priority) ==
    LET Keep(t) == Get(t, "priority", 0) > min_priority
    IN  SelectSeq(all_tasks, Keep)

tasks_by_priority(all_tasks, min_priority) ==
    LET Keep(t) == Get(t, "priority", 0) >= min_priority
    IN  SelectSeq(all_tasks, Keep)

get_overdue_tasks == Nested([m |-> "get_overdue_tasks"], get_all_tasks(None))

overdue_tasks(all_tasks, now) ==
    LET Keep(task) ==
            LET due_date == Get(task, "dueDate", "")
                due_str  == IF Contains(due_date, "+")
                            THEN SplitHead(due_date, "+")
                            ELSE Replace(Slice(due_date, 19), "T", " ")
                task_due == fromisoformat(due_str)
            IN  /\ due_date # ""
                /\ task_due # None
                /\ TupleLess(task_due[1], fromisoformat(now)[1], 1)
    IN  SelectSeq(all_tasks, Keep)

get_tasks_by_tag(tag) == Nested([m |-> "get_tasks_by_tag", tag |-> tag], get_all_tasks(None))

\* mutant: the tags are compared as written
tasks_by_tag_CaseSensitive(all_tasks, tag) ==
    LET Keep(task) == LET task_tags == Get(task, "tags", <<>>)
                      IN  \E i \in 1..Len(task_tags) : task_tags[i] = tag
    IN  SelectSeq(all_tasks, Keep)

tasks_by_tag(all_tasks, tag) ==
    LET tag_lower == Lower(tag)
        Keep(task) == LET task_tags == Get(task, "tags", <<>>)
                      IN  \E i \in 1..Len(task_tags) : Lower(task_tags[i]) = tag_lower
    IN  SelectSeq(all_tasks, Keep)

get_all_tags == Nested([m |-> "get_all_tags"], get_all_tasks(None))

\* mutant: the tags are folded to lower case before the union
all_tags_Folded(all_tasks) ==
    Sorted(UNION {{Lower(Get(all_tasks[i], "tags", <<>>)[j])
                     : j \in 1..Len(Get(all_tasks[i], "tags", <<>>))}
                  : i \in 1..Len(all_tasks)})

all_tags(all_tasks) ==
    Sorted(UNION {{Get(all_tasks[i], "tags", <<>>)[j] : j \in 1..Len(Get(all_tasks[i], "tags", <<>>))}
                  : i \in 1..Len(all_tasks)})

----------------------------------------------------------------------------
(* api.py: writes *)

\* the time appended without its offset
DueDateWire_NoOffset(due_date) ==
    IF Len(due_date) = 10 THEN due_date \o "T00:00:00" ELSE due_date

\* lines 136-137 (and 161-162, 335-336): a date-only due date gets a time
DueDateWire(due_date) ==
    IF Len(due_date) = 10 THEN due_date \o "T00:00:00+0000" ELSE due_date

\* lines 126-138: the payload of create_task
create_task_data(title, project_id, content, priority, due_date) ==
    LET d0 == [title |-> title]
        d1 == IF TruthyStr(project_id) THEN Put(d0, "projectId", project_id[1]) ELSE d0
        d2 == IF TruthyStr(content) THEN Put(d1, "content", content[1]) ELSE d1
        d3 == IF priority # 0 THEN Put(d2, "priority", priority) ELSE d2
    IN  IF TruthyStr(due_date) THEN Put(d3, "dueDate", DueDateWire(due_date[1])) ELSE d3

create_task(title, project_id, content, priority, due_date) ==
    TailCall(Req("POST", <<"task">>,
                 Some(create_task_data(title, project_id, content, priority, due_date))))

\* `if content:` in place of `if content is not None:`
update_task_data_TruthyContent(task_id, project_id, title, content, priority, due_date) ==
    LET d0 == [id |-> task_id, projectId |-> project_id]
        d1 == IF TruthyStr(title) THEN Put(d0, "title", title[1]) ELSE d0
        d2 == IF TruthyStr(content) THEN Put(d1, "content", content[1]) ELSE d1
        d3 == IF priority # None THEN Put(d2, "priority", priority[1]) ELSE d2
    IN  IF TruthyStr(due_date) THEN Put(d3, "dueDate", DueDateWire(due_date[1])) ELSE d3

\* lines 152-163: the payload of update_task
update_task_data(task_id, project_id, title, content, priority, due_date) ==
    LET d0 == [id |-> task_id, projectId |-> project_id]
        d1 == IF TruthyStr(title) THEN Put(d0, "title", title[1]) ELSE d0
        d2 == IF content # None THEN Put(d1, "content", content[1]) ELSE d1
        d3 == IF priority # None THEN Put(d2, "priority", priority[1]) ELSE d2
    IN  IF TruthyStr(due_date) THEN Put(d3, "dueDate", DueDateWire(due_date[1])) ELSE d3

update_task(task_id, project_id, title, content, priority, due_date) ==
    TailCall(Req("POST", <<"task", task_id>>,
                 Some(update_task_data(task_id, project_id, title, content, priority, due_date))))

complete_task(task_id, project_id) ==
    TailCall(Req("POST", <<"project", project_id, "task", task_id, "complete">>, None))

delete_task(task_id, project_id) ==
    TailCall(Req("DELETE", <<"project", project_id, "task", task_id>>, None))

create_project(name, color, view_mode, kind) ==
    TailCall(Req("POST", <<"project">>,
                 Some([name |-> name, color |-> color, viewMode |-> view_mode, kind |-> kind])))

update_project(project_id, name, color, view_mode, kind) ==
    LET d0 == [id |-> project_id]
        d1 == IF TruthyStr(name) THEN Put(d0, "name", name[1]) ELSE d0
        d2 == IF TruthyStr(color) THEN Put(d1, "color", color[1]) ELSE d1
        d3 == IF TruthyStr(view_mode) THEN Put(d2, "viewMode", view_mode[1]) ELSE d2
        d4 == IF TruthyStr(kind) THEN Put(d3, "kind", kind[1]) ELSE d3
    IN  TailCall(Req("POST", <<"project", project_id>>, Some(d4)))

delete_project(project_id) == TailCall(Req("DELETE", <<"project", project_id>>, None))

\* mutant: the sort positions count from one
subtask_items_FromOne(subtasks) ==
    [i \in 1..Len(subtasks) |->
        [title     |-> Get(subtasks[i], "title", ""),
         status    |-> Get(subtasks[i], "status", 0),
         sortOrder |-> i]]

\* lines 340-349: the checklist made of the subtasks given at creation
subtask_items(subtasks) ==
    [i \in 1..Len(subtasks) |->
        [title     |-> Get(subtasks[i], "title", ""),
         status    |-> Get(subtasks[i], "status", 0),
         sortOrder |-> i - 1]]

create_task_with_subtasks(title, project_id, content, priority, due_date, subtasks) ==
    LET d0 == create_task_data(title, project_id, content, priority, due_date)
        d1 == IF TruthyList(subtasks) THEN Put(d0, "items", subtask_items(subtasks[1])) ELSE d0
    IN  TailCall(Req("POST", <<"task">>, Some(d1)))

add_subtask(task_id, project_id, subtask_title) ==
    Await(get_project_data(project_id),
          [at |-> "read", task_id |-> task_id, project_id |-> project_id,
           subtask_title |-> subtask_title])

\* the new item alone, in place of the checklist with the new item appended
add_subtask_data_NewOnly(current_task, task_id, project_id, subtask_title) ==
    LET items    == Get(current_task, "items", <<>>)
        new_item == [title |-> subtask_title, status |-> 0, sortOrder |-> Len(items)]
    IN  [id |-> task_id, projectId |-> project_id, items |-> <<new_item>>]

\* the task's id in place of the title given for the new item
add_subtask_data_WrongTitle(current_task, task_id, project_id, subtask_title) ==
    LET items    == Get(current_task, "items", <<>>)
        new_item == [title |-> task_id, status |-> 0, sortOrder |-> Len(items)]
    IN  [id |-> task_id, projectId |-> project_id, items |-> Append(items, new_item)]

\* lines 377-393: the payload add_subtask writes back for the task it found
\* mutant: the project name the task carries is written back with it
add_subtask_data_WithProjectName(current_task, task_id, project_id, subtask_title) ==
    LET items    == Get(current_task, "items", <<>>)
        new_item == [title |-> subtask_title, status |-> 0, sortOrder |-> Len(items)]
    IN  [id |-> task_id, projectId |-> project_id, items |-> Append(items, new_item),
         _project_name |-> Get(current_task, "_project_name", "Unknown")]

add_subtask_data(current_task, task_id, project_id, subtask_title) ==
    LET items    == Get(current_task, "items", <<>>)
        new_item == [title |-> subtask_title, status |-> 0, sortOrder |-> Len(items)]
    IN  [id |-> task_id, projectId |-> project_id, items |-> Append(items, new_item)]

\* without the test of line 374: a task that was not found is written back
add_subtask_resume_NoCheck(frame, r) ==
    IF r.exc # None THEN Raise(r.exc[1])
    ELSE LET tasks        == Get(r.val, "tasks", <<>>)
             current_task == FirstWith(tasks, "id", frame.task_id, 1)
         IN  TailCall(Req("POST", <<"task", frame.task_id>>,
                          Some(add_subtask_data(IF current_task = None THEN EmptyDict
                                                ELSE current_task[1],
                                                frame.task_id, frame.project_id,
                                                frame.subtask_title))))

\* lines 364-395, from the answer to the read on
add_subtask_resume(frame, r) ==
    IF r.exc # None THEN Raise(r.exc[1])
    ELSE LET tasks        == Get(r.val, "tasks", <<>>)
             current_task == FirstWith(tasks, "id", frame.task_id, 1)
         IN  IF current_task = None
             THEN Raise(ValueError("Task " \o frame.task_id \o " not found in project "
                                   \o frame.project_id))
             ELSE TailCall(Req("POST", <<"task", frame.task_id>>,
                               Some(add_subtask_data(current_task[1], frame.task_id,
                                                     frame.project_id, frame.subtask_title))))

----------------------------------------------------------------------------
(* api.py: resuming a suspended client method with the outcome r of the   *)
(* exchange it awaited                                                     *)

\* the method `caller` goes on after its inner call returned v
Continue(caller, v, now) ==
    CASE caller.m = "get_today_tasks"       -> Return(today_tasks(v, now))
      [] caller.m = "get_overdue_tasks"     -> Return(overdue_tasks(v, now))
      [] caller.m = "get_tasks_by_priority" -> Return(tasks_by_priority(v, caller.min_priority))
      [] caller.m = "get_tasks_by_tag"      -> Return(tasks_by_tag(v, caller.tag))
      [] caller.m = "get_all_tags"          -> Return(all_tags(v))
      [] caller.m = "get_project_with_data" ->
            Await(get_project_data(caller.project_id), [at |-> "data", project |-> v])

ResumeInner(frame, r) ==
    CASE frame.at = "tail" -> TailResume(r)
      [] frame.at \in {"single", "projects", "loop"} -> get_all_tasks_resume(frame, r)
      [] frame.at = "scan" -> get_project_by_id_resume(frame, r)
      [] frame.at = "data" -> get_project_with_data_resume(frame, r)
      [] frame.at = "read" -> add_subtask_resume(frame, r)

Resume(frame, r, now) ==
    IF "caller" \in DOMAIN frame
    THEN LET step == ResumeInner(frame, r)
         IN  IF step.k = "await" THEN Nested(frame.caller, step)
             ELSE IF step.k = "return" THEN Continue(frame.caller, step.val, now)
             ELSE step
    ELSE ResumeInner(frame, r)

----------------------------------------------------------------------------
(* server.py: rendering.  The glyphs are written in ASCII:                 *)
(* (x) cross mark, (v) check mark, (bin) wastebasket, (dir) folder,        *)
(* (cal) calendar, (tag) label, (!) warning, (aim) target, (0) (1) (3) (5) *)
(* the four priority circles, [v] [ ] the checklist marks.                 *)

CrossMark == "(x)"

CheckMark == "(v)"

\* str(n) for a natural number
RECURSIVE Str(_)
Str(n) ==
    IF n < 10 THEN SubSeq("0123456789", n + 1, n + 1)
    ELSE Str(n \div 10) \o SubSeq("0123456789", (n % 10) + 1, (n % 10) + 1)

\* sep.join(parts)
RECURSIVE Join(_, _)
Join(sep, parts) ==
    IF parts = <<>> THEN ""
    ELSE IF Len(parts) = 1 THEN parts[1]
    ELSE parts[1] \o sep \o Join(sep, Tail(parts))

\* the concatenation of a sequence of sequences
RECURSIVE Flatten(_)
Flatten(seqs) == IF seqs = <<>> THEN <<>> ELSE Head(seqs) \o Flatten(Tail(seqs))

TextContent(text) == [type |-> "text", text |-> text]

format_task(task) ==
    LET p        == Get(task, "priority", 0)
        priority == IF p \in {0, 1, 3, 5} THEN "(" \o Str(p) \o ")" ELSE "(0)"
        title    == Get(task, "title", "Untitled")
        project  == Get(task, "_project_name", "")
        due      == IF Get(task, "dueDate", "") # ""
                    THEN Slice(task.dueDate, 10)
                    ELSE ""
        tags     == Get(task, "tags", <<>>)
    IN  Join(" ", <<priority \o " " \o title>>
                  \o (IF project # "" THEN <<"[" \o project \o "]">> ELSE <<>>)
                  \o (IF due # "" THEN <<"(cal) " \o due>> ELSE <<>>)
                  \o (IF tags # <<>> THEN <<"(tag) " \o Join(", ", tags)>> ELSE <<>>))

format_tasks_list(tasks, show_subtasks) ==
    IF tasks = <<>> THEN "No tasks found."
    ELSE LET item_lines(task) ==
                 LET items == Get(task, "items", <<>>)
                 IN  IF show_subtasks
                     THEN [i \in 1..Len(items) |->
                             "      " \o (IF Opt(items[i], "status") = Some(1) THEN "[v]" ELSE "[ ]")
                             \o " " \o Get(items[i], "title", "")]
                     ELSE <<>>
             task_lines(task) ==
                 <<"  * " \o format_task(task),
                   "    ID: " \o Get(task, "id", "N/A") \o " | Project ID: "
                       \o Get(task, "projectId", "N/A")>>
                 \o item_lines(task)
         IN  Join("\n", <<"Found " \o Str(Len(tasks)) \o " task(s):\n">>
                        \o Flatten([i \in 1..Len(tasks) |-> task_lines(tasks[i])]))

format_project(project) ==
    "(dir) " \o Get(project, "name", "Untitled") \o " (" \o Get(project, "viewMode", "list")
    \o ") " \o Get(project, "color", "")

\* json.dumps(project, indent=2), for the keys a project has
json_dumps(project) ==
    LET keys == SelectSeq(<<"id", "name", "color", "viewMode", "kind">>,
                          LAMBDA k : k \in DOMAIN project)
    IN  "{\n" \o Join(",\n", [i \in 1..Len(keys) |-> "  " \o keys[i] \o ": " \o project[keys[i]]])
        \o "\n}"

\* the text call_tool returns for tool `name` when its client call returned v
Render(name, arguments, v) ==
    CASE name = "get_projects" ->
            IF v = <<>> THEN "No projects found."
            ELSE Join("\n", <<"Found " \o Str(Len(v)) \o " project(s):\n">>
                            \o Flatten([i \in 1..Len(v) |->
                                   <<"  * " \o format_project(v[i]),
                                     "    ID: " \o Get(v[i], "id", "N/A")>>]))
      [] name = "get_project_by_id" ->
            format_project(v) \o "\nID: " \o Get(v, "id", "None") \o "\n\n" \o json_dumps(v)
      [] name = "get_project_with_data" ->
            Join("\n", <<"(dir) Project: " \o Get(v.project, "name", "Untitled") \o "\n",
                         "Tasks: " \o Str(Len(v.tasks))>>
                       \o (IF v.columns # <<>>
                           THEN <<"Columns: " \o Join(", ", [i \in 1..Len(v.columns) |->
                                                               Get(v.columns[i], "name", "")])>>
                           ELSE <<>>)
                       \o <<"\n" \o format_tasks_list(v.tasks, TRUE)>>)
      [] name = "create_project" ->
            CheckMark \o " Project created: " \o Get(v, "name", "Untitled")
            \o "\nID: " \o Get(v, "id", "N/A")
      [] name = "update_project" ->
            CheckMark \o " Project updated: " \o Get(v, "name", "Untitled")
      [] name = "delete_project" -> "(bin) Project deleted."
      [] name = "get_tasks" -> format_tasks_list(v, FALSE)
      [] name = "get_today_tasks" ->
            IF v # <<>> THEN "(cal) Tasks due TODAY:\n\n" \o format_tasks_list(v, FALSE)
            ELSE CheckMark \o " No tasks due today!"
      [] name = "get_overdue_tasks" ->
            IF v # <<>> THEN "(!) OVERDUE tasks (" \o Str(Len(v)) \o "):\n\n"
                             \o format_tasks_list(v, FALSE)
            ELSE CheckMark \o " No overdue tasks!"
      [] name = "get_high_priority_tasks" ->
            LET min_priority   == Get(arguments, "min_priority", 3)
                priority_label == CASE min_priority = 1 -> "Low+"
                                    [] min_priority = 3 -> "Medium+"
                                    [] min_priority = 5 -> "High"
                                    [] OTHER -> ""
            IN  IF v # <<>> THEN "(aim) " \o priority_label \o " priority tasks:\n\n"
                                 \o format_tasks_list(v, FALSE)
                ELSE format_tasks_list(v, FALSE)
      [] name = "get_tasks_by_tag" ->
            IF v # <<>> THEN "(tag) Tasks with tag '" \o arguments.tag \o "':\n\n"
                             \o format_tasks_list(v, FALSE)
            ELSE "No tasks found with tag '" \o arguments.tag \o "'"
      [] name = "get_all_tags" ->
            IF v # <<>> THEN "(tag) All tags (" \o Str(Len(v)) \o "):\n\n"
                             \o Join("\n", [i \in 1..Len(v) |-> "  * " \o v[i]])
            ELSE "No tags found."
      [] name = "create_task" ->
            CheckMark \o " Task created: " \o Get(v, "title", "Untitled")
            \o "\nID: " \o Get(v, "id", "N/A")
      [] name = "create_task_with_subtasks" ->
            CheckMark \o " Task created: " \o Get(v, "title", "Untitled") \o " with "
            \o Str(Len(Get(arguments, "subtasks", <<>>))) \o " subtask(s)\nID: "
            \o Get(v, "id", "N/A")
      [] name = "add_subtask" -> CheckMark \o " Subtask added: " \o arguments.subtask_title
      [] name = "complete_task" -> CheckMark \o " Task marked as complete!"
      [] name = "update_task" -> CheckMark \o " Task updated: " \o Get(v, "title", "Untitled")
      [] name = "delete_task" -> "(bin) Task deleted."

----------------------------------------------------------------------------
(* server.py: call_tool *)

\* the catalog of list_tools
ToolNames ==
    {"get_projects", "get_project_by_id", "get_project_with_data", "create_project",
     "update_project", "delete_project", "get_tasks", "get_today_tasks",
     "get_overdue_tasks", "get_high_priority_tasks", "get_tasks_by_tag", "get_all_tags",
     "create_task", "create_task_with_subtasks", "add_subtask", "complete_task",
     "update_task", "delete_task"}

\* get_api(): the client to use and the new value of the global _api, or
\* the exception of the constructor
get_api(api, environ) ==
    IF api = None
    THEN LET made == TickTickAPI(None, environ)
         IN  IF made.exc # None THEN [exc |-> made.exc, api |-> api]
             ELSE [exc |-> None, api |-> made.val]
    ELSE [exc |-> None, api |-> api]

\* the keys the branch of `name` subscripts (arguments["k"]) while it
\* evaluates the arguments of its client call, in evaluation order
Subscripted(name) ==
    CASE name \in {"get_project_by_id", "get_project_with_data", "update_project",
                   "delete_project"} -> <<"project_id">>
      [] name = "create_project" -> <<"name">>
      [] name = "get_tasks_by_tag" -> <<"tag">>
      [] name \in {"create_task", "create_task_with_subtasks"} -> <<"title">>
      [] name = "add_subtask" -> <<"task_id", "project_id", "subtask_title">>
      [] name \in {"complete_task", "update_task", "delete_task"} -> <<"task_id", "project_id">>
      [] OTHER -> <<>>

\* the client call of the branch of `name`
ApiCall(name, arguments) ==
    CASE name = "get_projects" -> TailCall(get_projects)
      [] name = "get_project_by_id" -> get_project_by_id(arguments.project_id)
      [] name = "get_project_with_data" -> get_project_with_data(arguments.project_id)
      [] name = "create_project" ->
            create_project(arguments.name, Get(arguments, "color", "#4772FA"),
                           Get(arguments, "view_mode", "list"), Get(arguments, "kind", "TASK"))
      [] name = "update_project" ->
            update_project(arguments.project_id, Opt(arguments, "name"),
                           Opt(arguments, "color"), Opt(arguments, "view_mode"), None)
      [] name = "delete_project" -> delete_project(arguments.project_id)
      [] name = "get_tasks" -> get_all_tasks(Opt(arguments, "project_id"))
      [] name = "get_today_tasks" -> get_today_tasks
      [] name = "get_overdue_tasks" -> get_overdue_tasks
      [] name = "get_high_priority_tasks" ->
            get_tasks_by_priority(Get(arguments, "min_priority", 3))
      [] name = "get_tasks_by_tag" -> get_tasks_by_tag(arguments.tag)
      [] name = "get_all_tags" -> get_all_tags
      [] name = "create_task" ->
            create_task(arguments.title, Opt(arguments, "project_id"),
                        Opt(arguments, "content"), Get(arguments, "priority", 0),
                        Opt(arguments, "due_date"))
      [] name = "create_task_with_subtasks" ->
            create_task_with_subtasks(arguments.title, Opt(arguments, "project_id"),
                        Opt(arguments, "content"), Get(arguments, "priority", 0),
                        Opt(arguments, "due_date"), Some(Get(arguments, "subtasks", <<>>)))
      [] name = "add_subtask" ->
            add_subtask(arguments.task_id, arguments.project_id, arguments.subtask_title)
      [] name = "complete_task" -> complete_task(arguments.task_id, arguments.project_id)
      [] name = "update_task" ->
            update_task(arguments.task_id, arguments.project_id, Opt(arguments, "title"),
                        Opt(arguments, "content"), Opt(arguments, "priority"),
                        Opt(arguments, "due_date"))
      [] name = "delete_task" -> delete_task(arguments.task_id, arguments.project_id)

\* the branch goes on after its client call: it returns the rendered text
Rendered(name, arguments, step) ==
    IF step.k = "return" THEN Return(Render(name, arguments, step.val)) ELSE step

\* lines 435-610: the body of the try, from its start to its first await
Body(name, arguments) ==
    IF name \notin ToolNames THEN Return("Unknown tool: " \o name)
    ELSE LET absent == SelectSeq(Subscripted(name), LAMBDA k : k \notin DOMAIN arguments)
         IN  IF absent # <<>> THEN Raise(KeyError(absent[1]))
             ELSE Rendered(name, arguments, ApiCall(name, arguments))

\* `except ValueError` in place of `except Exception`
Guarded_ValueErrorOnly(step) ==
    IF step.k = "raise" /\ step.exc.type = "ValueError"
    THEN Return(CrossMark \o " Error: " \o step.exc.msg)
    ELSE step

\* lines 434 and 612-614: an exception of the body becomes the returned text
Guarded(step) ==
    IF step.k = "raise" THEN Return(CrossMark \o " Error: " \o step.exc.msg) ELSE step

----------------------------------------------------------------------------
(* The remote service, as far as the client observes it: the project list, *)
(* each project's tasks, and what a successful request does to them.       *)

\* seq without its i-th element
RemoveAt(seq, i) == SubSeq(seq, 1, i - 1) \o SubSeq(seq, i + 1, Len(seq))

\* the index of the first record of seq whose id is `id`, or 0
IndexOfId(seq, id) ==
    IF \E i \in 1..Len(seq) : Opt(seq[i], "id") = Some(id)
    THEN CHOOSE i \in 1..Len(seq) :
             /\ Opt(seq[i], "id") = Some(id)
             /\ \A j \in 1..(i - 1) : Opt(seq[j], "id") # Some(id)
    ELSE 0

Endpoint(req) == Tail(req.url)

IsProjectData(req) ==
    req.method = "GET" /\ Len(Endpoint(req)) = 3 /\ Endpoint(req)[3] = "data"

IsTaskUpdate(req) ==
    req.method = "POST" /\ Len(Endpoint(req)) = 2 /\ Endpoint(req)[1] = "task"

IsTaskDelete(req) ==
    req.method = "DELETE" /\ Len(Endpoint(req)) = 4 /\ Endpoint(req)[3] = "task"

IsProjectUpdate(req) ==
    req.method = "POST" /\ Len(Endpoint(req)) = 2 /\ Endpoint(req)[1] = "project"

\* the remote can answer the request with a success
Servable(st, req) ==
    /\ IsProjectData(req) => Endpoint(req)[2] \in DOMAIN st.data
    /\ IsTaskUpdate(req) =>
          /\ "projectId" \in DOMAIN req.json[1]
          /\ req.json[1].projectId \in DOMAIN st.data
          /\ IndexOfId(st.data[req.json[1].projectId], Endpoint(req)[2]) # 0
    /\ IsTaskDelete(req) =>
          /\ Endpoint(req)[2] \in DOMAIN st.data
          /\ IndexOfId(st.data[Endpoint(req)[2]], Endpoint(req)[4]) # 0
    /\ IsProjectUpdate(req) => IndexOfId(st.projects, Endpoint(req)[2]) # 0

\* the records after the remote carried the request out
RemoteApply(st, req) ==
    IF ~Servable(st, req) THEN st
    ELSE IF IsTaskUpdate(req)
    THEN LET pid == req.json[1].projectId
             i   == IndexOfId(st.data[pid], Endpoint(req)[2])
         IN  [st EXCEPT !.data[pid][i] = req.json[1] @@ @]
    ELSE IF IsTaskDelete(req)
    THEN LET pid == Endpoint(req)[2]
         IN  [st EXCEPT !.data[pid] = RemoveAt(@, IndexOfId(@, Endpoint(req)[4]))]
    ELSE IF IsProjectUpdate(req)
    THEN [st EXCEPT !.projects[IndexOfId(st.projects, Endpoint(req)[2])] = req.json[1] @@ @]
    ELSE st

\* the body of the remote's successful answer
RemoteBody(st, req) ==
    IF ~Servable(st, req) THEN EmptyDict
    ELSE IF req.method = "GET" /\ Endpoint(req) = <<"project">> THEN st.projects
    ELSE IF IsProjectData(req) THEN [tasks |-> st.data[Endpoint(req)[2]]]
    ELSE IF IsTaskUpdate(req)
    THEN LET pid == req.json[1].projectId
         IN  RemoteApply(st, req).data[pid][IndexOfId(st.data[pid], Endpoint(req)[2])]
    ELSE IF IsProjectUpdate(req)
    THEN RemoteApply(st, req).projects[IndexOfId(st.projects, Endpoint(req)[2])]
    ELSE IF req.method = "POST" /\ Endpoint(req) \in {<<"task">>, <<"project">>}
    THEN Put(req.json[1], "id", "new")
    ELSE EmptyDict

----------------------------------------------------------------------------
(* get_token.py: the OAuth2 setup helper.  It waits for the callback that  *)
(* carries the authorization code, exchanges the code at the token         *)
(* endpoint, and writes the token into the file .env.                      *)

\* s.replace(old, new) for a non-empty old
RECURSIVE ReplaceAll(_, _, _)
ReplaceAll(s, old, new) ==
    IF Len(s) < Len(old) THEN s
    ELSE IF SubSeq(s, 1, Len(old)) = old
    THEN new \o ReplaceAll(SubSeq(s, Len(old) + 1, Len(s)), old, new)
    ELSE SubSeq(s, 1, 1) \o ReplaceAll(SubSeq(s, 2, Len(s)), old, new)

\* f"{v}" for an Optional[str]
Formatted(v) == IF v = None THEN "None" ELSE v[1]

\* the file .env as the user prepared it: the entry of the token is empty
EnvFile == "TICKTICK_CLIENT_ID=id\nTICKTICK_ACCESS_TOKEN=\n"

\* the helper before it is run
NotStarted ==
    [pc          |-> "idle",   \* idle, waiting, exchanging, done, raised
     auth_code   |-> None,     \* the module global
     answered    |-> None,     \* the status the handler sent for the last callback
     pending     |-> None,     \* the form posted to the token endpoint
     status_code |-> None,     \* response.status_code
     returned    |-> None,     \* what get_access_token returned
     runs        |-> 0]        \* how many times the helper was started

\* OAuthHandler.do_GET on a request with the parsed path and query: the
\* new value of auth_code and the status sent
do_GET(request, auth_code) ==
    IF request.path = "/callback"
    THEN IF "code" \in DOMAIN request.query
         THEN [auth_code |-> Some(request.query.code[1]), status |-> 200]
         ELSE [auth_code |-> auth_code, status |-> 400]
    ELSE [auth_code |-> auth_code, status |-> 404]

\* lines 97-107: the form of the exchange
TokenRequest(auth_code) ==
    [url  |-> "https://ticktick.com/oauth/token",
     data |-> [code |-> auth_code, grant_type |-> "authorization_code",
               scope |-> "tasks:read tasks:write"]]

\* lines 123-126: the text written back to .env
Substituted(content, access_token) ==
    ReplaceAll(content, "TICKTICK_ACCESS_TOKEN=",
               "TICKTICK_ACCESS_TOKEN=" \o Formatted(access_token))

----------------------------------------------------------------------------
(* Bounds and inputs *)

\* the longest checklist the remote accepts
MaxItems == 3

Token == "tok"

\* datetime.now() at the moments the client reads the clock
Times == {"2025-01-29 09:00:00", "2025-01-30 00:00:00", "2025-02-02 18:30:00"}

ItemA == [title |-> "A", status |-> 0, sortOrder |-> 0]

ItemB == [title |-> "B", status |-> 1, sortOrder |-> 1]

Task1 ==
    [id |-> "t1", projectId |-> "p1", title |-> "Report", priority |-> 5,
     dueDate |-> "2025-01-30T00:00:00+0000", tags |-> <<"Work">>, items |-> <<ItemA, ItemB>>]

Task2 == [id |-> "t2", projectId |-> "p1", title |-> "Call"]

Task3 ==
    [id |-> "t3", projectId |-> "p2", title |-> "Shop", priority |-> 1,
     dueDate |-> "2025-02-01", tags |-> <<"home", "work">>]

\* the records of the remote service when the server starts
InitialStore ==
    [projects |-> <<[id |-> "p1", name |-> "P1"], [id |-> "p2", name |-> "P2"]>>,
     data     |-> [pid \in {"p1", "p2"} |-> IF pid = "p1" THEN <<Task1, Task2>> ELSE <<Task3>>]]

\* the dict d, and d with each one of its keys in `keys` left out
WithOmissions(d, keys) ==
    {d} \cup {Without(d, {keys[i]}) : i \in 1..Len(keys)}

\* the argument mappings a client sends for the tool `name`
ArgumentsOf(name) ==
    CASE name \in {"get_project_by_id", "get_project_with_data", "delete_project"} ->
            {[project_id |-> "p1"], [project_id |-> "p9"], EmptyDict}
      [] name = "create_project" -> {[name |-> "P3"], [color |-> "#FF0000"]}
      [] name = "update_project" ->
            {[project_id |-> "p2", name |-> "Home"], [project_id |-> "p2", name |-> ""],
             [name |-> "Home"]}
      [] name = "get_tasks" -> {EmptyDict, [project_id |-> "p1"], [project_id |-> ""]}
      [] name = "get_high_priority_tasks" -> {EmptyDict, [min_priority |-> 1]}
      [] name = "get_tasks_by_tag" -> {[tag |-> "work"], EmptyDict}
      [] name = "create_task" ->
            {[title |-> "T"],
             [title |-> "T", project_id |-> "p1", content |-> "c", priority |-> 5,
              due_date |-> "2025-01-30"],
             [content |-> "c"]}
      [] name = "create_task_with_subtasks" ->
            {[title |-> "T", subtasks |-> <<[title |-> "a"], [title |-> "b", status |-> 1]>>],
             [title |-> "T"], EmptyDict}
      [] name = "add_subtask" ->
            UNION {WithOmissions([task_id |-> t, project_id |-> "p1", subtask_title |-> "C"],
                                 Subscripted(name)) : t \in {"t1", "t9"}}
      [] name \in {"complete_task", "delete_task"} ->
            UNION {WithOmissions([task_id |-> t, project_id |-> "p1"], Subscripted(name))
                   : t \in {"t2", "t9"}}
      [] name = "update_task" ->
            WithOmissions([task_id |-> "t1", project_id |-> "p1"], Subscripted(name))
            \cup {[task_id |-> "t1", project_id |-> "p1", title |-> "Report v2"],
                  [task_id |-> "t1", project_id |-> "p1", title |-> "", priority |-> 5,
                   due_date |-> "2025-01-30"]}
      [] OTHER -> {EmptyDict}

\* names a client may send that are not in the catalog
UnknownNames == {"bogus", ""}

----------------------------------------------------------------------------
(* The invocations *)

Idle ==
    [pc        |-> "idle",     \* idle, await, returned, raised
     name      |-> "",
     arguments |-> EmptyDict,
     frame     |-> None,       \* the locals of the suspended client method
     pending   |-> None,       \* the request in flight
     reqs      |-> <<>>,       \* the exchanges of this invocation that ended
     value     |-> None,       \* what the client method returned
     thrown    |-> None,       \* the exception raised inside the try
     result    |-> <<>>,       \* the list of TextContent call_tool returned
     escaped   |-> None]       \* the exception call_tool raised

\* the invocation `call`, run by client `self`, after the run that ended in
\* state `body` of the body of the try, the client method having returned
\* `value` (an Optional)
Settle(call, self, body, value) ==
    LET step == Guarded(body)
        seen == [call EXCEPT !.value = value,
                             !.thrown = IF body.k = "raise" THEN Some(body.exc) ELSE None]
    IN  IF step.k = "await"
        THEN [seen EXCEPT !.pc = "await", !.frame = step.frame,
                          !.pending = Some(WireRequest(self, step.req))]
        ELSE IF step.k = "return"
        THEN [seen EXCEPT !.pc = "returned", !.frame = None, !.pending = None,
                          !.result = <<TextContent(step.val)>>]
        ELSE [seen EXCEPT !.pc = "raised", !.frame = None, !.pending = None,
                          !.escaped = Some(step.exc)]

\* call_tool(name, arguments) is entered for caller c and runs to its first
\* await, or to its end
Invoke(c, name, arguments) ==
    /\ calls[c].pc # "await"
    /\ LET got   == get_api(_api, env)
           fresh == [Idle EXCEPT !.name = name, !.arguments = arguments]
       IN  IF got.exc # None
           THEN /\ _api' = _api
                /\ calls' = [calls EXCEPT ![c] = [fresh EXCEPT !.pc = "raised",
                                                              !.escaped = got.exc]]
           ELSE /\ _api' = got.api
                /\ calls' = [calls EXCEPT
                               ![c] = Settle(fresh, got.api[1], Body(name, arguments), None)]
    /\ UNCHANGED <<env, store, dotenv, setup>>

\* mutant: the exchange is answered from the records the remote had when
\* the server started
Respond_Cached(c, st, now) ==
    /\ calls[c].pc = "await"
    /\ LET call == calls[c]
           req  == call.pending[1]
       IN  /\ IsSuccess(st) => Servable(store, req)
           /\ store' = IF IsSuccess(st) THEN RemoteApply(store, req) ELSE store
           /\ LET r      == Response(st, RemoteBody(InitialStore, req))
                  step   == Resume(call.frame, r, now)
                  logged == [call EXCEPT !.reqs = Append(@, [req |-> req, status |-> st])]
              IN  calls' = [calls EXCEPT
                              ![c] = Settle(logged, _api[1],
                                            Rendered(call.name, call.arguments, step),
                                            IF step.k = "return" THEN Some(step.val) ELSE None)]
    /\ UNCHANGED <<env, _api, dotenv, setup>>

\* the exchange caller c awaits ends with outcome st; the handler runs on to
\* its next await, or to its end
Respond(c, st, now) ==
    /\ calls[c].pc = "await"
    /\ LET call == calls[c]
           req  == call.pending[1]
       IN  /\ IsSuccess(st) => Servable(store, req)
           /\ IsSuccess(st) /\ req.json # None /\ "items" \in DOMAIN req.json[1]
                 => Len(req.json[1].items) <= MaxItems
           /\ store' = IF IsSuccess(st) THEN RemoteApply(store, req) ELSE store
           /\ LET r      == Response(st, RemoteBody(store, req))
                  step   == Resume(call.frame, r, now)
                  logged == [call EXCEPT !.reqs = Append(@, [req |-> req, status |-> st])]
              IN  calls' = [calls EXCEPT
                              ![c] = Settle(logged, _api[1],
                                            Rendered(call.name, call.arguments, step),
                                            IF step.k = "return" THEN Some(step.val) ELSE None)]
    /\ UNCHANGED <<env, _api, dotenv, setup>>

\* another client of the remote service deletes a checklist item
RemoteEdit(pid, i, j) ==
    /\ pid \in DOMAIN store.data
    /\ i \in 1..Len(store.data[pid])
    /\ j \in 1..Len(Get(store.data[pid][i], "items", <<>>))
    /\ store' = [store EXCEPT !.data[pid][i].items = RemoveAt(@, j)]
    /\ UNCHANGED <<env, _api, calls, dotenv, setup>>

Init ==
    /\ dotenv = EnvFile
    /\ setup = NotStarted
    /\ env \in {None, Some(Token)}
    /\ _api = None
    /\ store = InitialStore
    /\ calls = [c \in {1} |-> Idle]

Next ==
    \/ \E c \in DOMAIN calls, name \in ToolNames \cup UnknownNames :
          \E arguments \in ArgumentsOf(name) : Invoke(c, name, arguments)
    \/ \E c \in DOMAIN calls, st \in Outcomes, now \in Times : Respond(c, st, now)

Spec == Init /\ [][Next]_vars

----------------------------------------------------------------------------
(* The checklist of a task under add_subtask, with another client of the   *)
(* remote service deleting items of the first task: one caller, a target   *)
(* with a checklist, one without, and one that does not exist.             *)

ChecklistArguments ==
    {[task_id |-> t, project_id |-> "p1", subtask_title |-> title]
        : t \in {"t1", "t2", "t9"}, title \in {"C"}}

ChecklistOutcomes == {200, 204, 403, NoResponse}

InitChecklist ==
    /\ dotenv = EnvFile
    /\ setup = NotStarted
    /\ env = Some(Token)
    /\ _api = None
    /\ store = InitialStore
    /\ calls = [c \in {1} |-> Idle]

NextChecklist ==
    \/ \E c \in DOMAIN calls, arguments \in ChecklistArguments :
          Invoke(c, "add_subtask", arguments)
    \/ \E c \in DOMAIN calls, st \in ChecklistOutcomes, now \in Times : Respond(c, st, now)
    \/ \E j \in 1..MaxItems : RemoteEdit("p1", 1, j)

SpecChecklist == InitChecklist /\ [][NextChecklist]_vars

----------------------------------------------------------------------------
(* Two invocations of add_subtask in flight at once: the server starts a   *)
(* handler for each request it receives, and a handler is suspended at     *)
(* each of its awaits.  Each caller makes one invocation, with its own     *)
(* title.                                                                  *)

RaceCallers == {1, 2}

RaceArguments(c) ==
    {[task_id |-> t, project_id |-> "p1", subtask_title |-> IF c = 1 THEN "C" ELSE "D"]
        : t \in {"t1", "t2"}}

RaceOutcomes == {200, 500, NoResponse}

InitRace ==
    /\ dotenv = EnvFile
    /\ setup = NotStarted
    /\ env = Some(Token)
    /\ _api = None
    /\ store = InitialStore
    /\ calls = [c \in RaceCallers |-> Idle]

NextRace ==
    \/ \E c \in DOMAIN calls :
          \E arguments \in RaceArguments(c) :
              calls[c].pc = "idle" /\ Invoke(c, "add_subtask", arguments)
    \/ \E c \in DOMAIN calls, st \in RaceOutcomes, now \in Times : Respond(c, st, now)

SpecRace == InitRace /\ [][NextRace]_vars

----------------------------------------------------------------------------
(* The payloads of the writes, over the combinations of optional fields *)

DueDates == {"", "2025-1-30", "2025-01-30", "2025-01-30T10:00:00+0000"}

\* every mapping made of `base` and a choice, for each optional key, of
\* leaving it out or of one of its values
Optionals(base, title, content, priority, due_date) ==
    {base @@ t @@ n @@ p @@ d :
        t \in {EmptyDict} \cup {[title |-> v] : v \in title},
        n \in {EmptyDict} \cup {[content |-> v] : v \in content},
        p \in {EmptyDict} \cup {[priority |-> v] : v \in priority},
        d \in {EmptyDict} \cup {[due_date |-> v] : v \in due_date}}

WriteArguments(name) ==
    CASE name = "update_task" ->
            Optionals([task_id |-> "t1", project_id |-> "p1"],
                      {"", "Report v2"}, {"", "notes"}, {0, 5}, DueDates)
      [] name = "create_task" ->
            Optionals([title |-> "T"], {}, {"notes"}, {0, 3}, DueDates)
      [] name = "create_task_with_subtasks" ->
            Optionals([title |-> "T", subtasks |-> <<[title |-> "a"]>>], {}, {}, {1}, DueDates)

WriteOutcomes == {200, 500}

InitWrites ==
    /\ dotenv = EnvFile
    /\ setup = NotStarted
    /\ env = Some(Token)
    /\ _api = None
    /\ store = InitialStore
    /\ calls = [c \in {1} |-> Idle]

NextWrites ==
    \/ \E c \in DOMAIN calls,
          name \in {"update_task", "create_task", "create_task_with_subtasks"} :
          \E arguments \in WriteArguments(name) : Invoke(c, name, arguments)
    \/ \E c \in DOMAIN calls, st \in WriteOutcomes, now \in Times : Respond(c, st, now)

SpecWrites == InitWrites /\ [][NextWrites]_vars

----------------------------------------------------------------------------
(* Properties *)

\* sub in s
HasSubstring(s, sub) ==
    \E i \in 1..(Len(s) - Len(sub) + 1) : SubSeq(s, i, i + Len(sub) - 1) = sub

\* the invocation has ended, by a return or by an exception
Ended(call) == call.pc \in {"returned", "raised"}

\* C1: when the handler of a tool raises an exception inside the try (an
\* HTTP status error, a transport error, a not-found ValueError, the
\* KeyError of a missing required argument), call_tool does not raise: it
\* returns exactly one text result, whose text begins with the cross mark
\* and contains the message of the exception.
C1_ExceptionBecomesText ==
    \A c \in DOMAIN calls :
        calls[c].thrown # None =>
            /\ calls[c].pc = "returned"
            /\ calls[c].escaped = None
            /\ Len(calls[c].result) = 1
            /\ calls[c].result[1].type = "text"
            /\ StartsWith(calls[c].result[1].text, CrossMark)
            /\ HasSubstring(calls[c].result[1].text, calls[c].thrown[1].msg)

\* C1 witness: add_subtask has read the project, did not find the task, and
\* the ValueError came back as the text of the result
C1_Witness ==
    \E c \in DOMAIN calls :
        /\ calls[c].name = "add_subtask"
        /\ calls[c].thrown # None
        /\ calls[c].thrown[1].type = "ValueError"
        /\ Len(calls[c].reqs) = 1
        /\ calls[c].pc = "returned"

\* C2: no failure leaves call_tool as an exception, whatever the tool name
\* and also when the bearer token is missing: every invocation that ended
\* has returned a text result.
C2_NoExceptionEscapes ==
    \A c \in DOMAIN calls :
        Ended(calls[c]) =>
            /\ calls[c].pc = "returned"
            /\ calls[c].escaped = None
            /\ Len(calls[c].result) = 1

\* C3: an invocation with a name outside the catalog returns a text that
\* contains "Unknown tool" and the name, does not raise, and has issued no
\* HTTP request.
C3_UnknownToolText ==
    \A c \in DOMAIN calls :
        calls[c].pc # "idle" /\ calls[c].name \notin ToolNames =>
            /\ calls[c].pc = "returned"
            /\ calls[c].escaped = None
            /\ Len(calls[c].result) = 1
            /\ HasSubstring(calls[c].result[1].text, "Unknown tool")
            /\ HasSubstring(calls[c].result[1].text, calls[c].name)
            /\ calls[c].reqs = <<>>
            /\ calls[c].pending = None

\* the invocation runs the aggregate of get_all_tasks (no project filter)
IsAggregate(call) ==
    /\ call.name \in {"get_tasks", "get_today_tasks", "get_overdue_tasks",
                      "get_high_priority_tasks", "get_tasks_by_tag", "get_all_tags"}
    /\ call.name = "get_tasks" => ~TruthyStr(Opt(call.arguments, "project_id"))

\* C4: in the aggregate, a per-project fetch that fails with 401 or 403 is
\* skipped (the aggregate does not fail because of it), and every other
\* failure of a per-project fetch (no response, or a status such as 404 or
\* 500) ends the aggregate with that failure.
C4_OnlyAccessErrorsSkipped ==
    \A c \in DOMAIN calls :
        IsAggregate(calls[c]) =>
            \A i \in 2..Len(calls[c].reqs) :
                LET st   == calls[c].reqs[i].status
                    last == i = Len(calls[c].reqs) /\ calls[c].pc = "returned"
                IN  /\ st \in {401, 403} => ~(last /\ calls[c].thrown # None)
                    /\ ~IsSuccess(st) /\ st \notin {401, 403} =>
                          /\ i = Len(calls[c].reqs)
                          /\ calls[c].pc = "returned"
                          /\ calls[c].thrown # None

\* what the aggregate is to return over the records st when its exchanges
\* ended as logged: the tasks of the projects whose fetch succeeded, in
\* listing order, each with the name of its project
ExpectedAggregate(st, reqs) ==
    IF reqs[1].status = 204 THEN <<>>
    ELSE Flatten([i \in 1..Len(st.projects) |->
            IF reqs[i + 1].status = 200
            THEN LET tasks == st.data[st.projects[i].id]
                 IN  [j \in 1..Len(tasks) |->
                         [k \in DOMAIN tasks[j] \cup {"_project_name"} |->
                             IF k = "_project_name" THEN st.projects[i].name ELSE tasks[j][k]]]
            ELSE <<>>])

\* C5: when list_tasks without a project returns, it returns the tasks of
\* the accessible projects, project by project in listing order and in each
\* project's task order, every task annotated with its own project's name.
C5_AggregateOrderAndNames ==
    \A c \in DOMAIN calls :
        /\ calls[c].name = "get_tasks"
        /\ IsAggregate(calls[c])
        /\ calls[c].value # None
        => calls[c].value[1] = ExpectedAggregate(store, calls[c].reqs)

\* C5 witness: P1 answered with its tasks, P2 with 403, and the aggregate
\* returned P1's tasks only, each annotated with P1's name
C5_Witness ==
    \E c \in DOMAIN calls :
        /\ calls[c].name = "get_tasks"
        /\ IsAggregate(calls[c])
        /\ calls[c].value # None
        /\ Len(calls[c].reqs) = 3
        /\ calls[c].reqs[2].status = 200
        /\ calls[c].reqs[3].status = 403
        /\ Len(calls[c].value[1]) = 2
        /\ \A j \in 1..2 : calls[c].value[1][j]["_project_name"] = "P1"
        /\ calls[c].pc = "returned"
        /\ calls[c].thrown = None

\* the checklist the remote holds for task tid of project pid
ItemsInStore(st, pid, tid) == Get(st.data[pid][IndexOfId(st.data[pid], tid)], "items", <<>>)

\* in this step the read of the add_subtask of caller c is answered with a
\* success
ReadAnswered(c) ==
    /\ calls[c].pc = "await"
    /\ calls[c].name = "add_subtask"
    /\ calls[c].frame.at = "read"
    /\ Len(calls'[c].reqs) = Len(calls[c].reqs) + 1
    /\ IsSuccess(calls'[c].reqs[Len(calls'[c].reqs)].status)

\* the task is in the task set the read returns
TaskFetched(c) ==
    /\ calls'[c].reqs[Len(calls'[c].reqs)].status = 200
    /\ IndexOfId(store.data[calls[c].arguments.project_id], calls[c].arguments.task_id) # 0

\* C6: add_subtask on a task found in the project's task set writes back
\* the task's whole checklist: the items it read, unchanged and in their
\* order, followed by one new item with the given title, status 0 and the
\* number of items read as sort position.
C6_AppendKeepsChecklist ==
    [][\A c \in DOMAIN calls :
          ReadAnswered(c) /\ TaskFetched(c) =>
              LET a   == calls[c].arguments
                  old == ItemsInStore(store, a.project_id, a.task_id)
              IN  /\ calls'[c].pc = "await"
                  /\ calls'[c].pending[1].method = "POST"
                  /\ Endpoint(calls'[c].pending[1]) = <<"task", a.task_id>>
                  /\ calls'[c].pending[1].json
                       = Some([id |-> a.task_id, projectId |-> a.project_id,
                               items |-> old \o <<[title |-> a.subtask_title, status |-> 0,
                                                   sortOrder |-> Len(old)]>>])]_vars

\* C6 witness: the checklist [A(0), B(1)] was read and [A, B, C(status 0,
\* sort position 2)] is being written back
C6_Witness ==
    \E c \in DOMAIN calls :
        /\ calls[c].name = "add_subtask"
        /\ calls[c].pc = "await"
        /\ calls[c].pending[1].method = "POST"
        /\ calls[c].pending[1].json[1].items
             = <<ItemA, ItemB, [title |-> "C", status |-> 0, sortOrder |-> 2]>>

\* the add_subtask of `call` has written, with success
Wrote(call) ==
    /\ call.name = "add_subtask"
    /\ call.pc = "returned"
    /\ call.thrown = None
    /\ Len(call.reqs) = 2

\* the checklist it wrote, the checklist it had read, and its new item
Written(call) == call.reqs[2].req.json[1].items

ReadBy(call) == SubSeq(Written(call), 1, Len(Written(call)) - 1)

NewItem(call) == Written(call)[Len(Written(call))]

Holds(items, item) == \E i \in 1..Len(items) : items[i] = item

\* C7: when two invocations of add_subtask on the same task have both
\* read the checklist before either wrote (each read the checklist
\* without the other's item) and both have completed, the remote
\* checklist is the one written last: it has one item more than the
\* checklist read, and holds one of the two new items and not the other.
C7_LostUpdate ==
    \A c, d \in DOMAIN calls :
        /\ c # d
        /\ Wrote(calls[c]) /\ Wrote(calls[d])
        /\ calls[c].arguments.task_id = calls[d].arguments.task_id
        /\ ReadBy(calls[c]) = ReadBy(calls[d])
        => LET items == ItemsInStore(store, "p1", calls[c].arguments.task_id)
           IN  /\ items \in {Written(calls[c]), Written(calls[d])}
               /\ Len(items) = Len(ReadBy(calls[c])) + 1
               /\ Holds(items, NewItem(calls[c])) # Holds(items, NewItem(calls[d]))

\* C7 witness: both invocations read [A, B], both wrote, caller 2 last:
\* the remote checklist is [A, B, D] and the item C of caller 1 is lost
C7_Witness ==
    /\ Wrote(calls[1]) /\ Wrote(calls[2])
    /\ calls[1].arguments.task_id = "t1" /\ calls[2].arguments.task_id = "t1"
    /\ ReadBy(calls[1]) = <<ItemA, ItemB>>
    /\ ReadBy(calls[2]) = <<ItemA, ItemB>>
    /\ ItemsInStore(store, "p1", "t1")
         = <<ItemA, ItemB, [title |-> "D", status |-> 0, sortOrder |-> 2]>>

\* C8: add_subtask with a task_id that is not in the task set fetched for
\* the project fails, after that one read, with the ValueError that names
\* the task and the project; it issues no write, and the remote records
\* are unchanged.
C8_NotFoundNoWrite ==
    [][\A c \in DOMAIN calls :
          ReadAnswered(c) /\ ~TaskFetched(c) =>
              /\ calls'[c].thrown
                   = Some(ValueError("Task " \o calls[c].arguments.task_id
                                     \o " not found in project "
                                     \o calls[c].arguments.project_id))
              /\ calls'[c].pc = "returned"
              /\ calls'[c].pending = None
              /\ Len(calls'[c].reqs) = 1
              /\ calls'[c].reqs[1].req.method = "GET"
              /\ store' = store]_vars

\* C8 witness: add_subtask for t9, which project p1 does not have, ended
\* after one answered read with the not-found error
C8_Witness ==
    \E c \in DOMAIN calls :
        /\ calls[c].name = "add_subtask"
        /\ calls[c].arguments.task_id = "t9"
        /\ Len(calls[c].reqs) = 1
        /\ calls[c].reqs[1].status = 200
        /\ calls[c].thrown = Some(ValueError("Task t9 not found in project p1"))

\* the invocation has put a request on the wire; the JSON body of its
\* latest request
Sent(call) == call.pending # None \/ call.reqs # <<>>

Payload(call) ==
    IF call.pending # None THEN call.pending[1].json[1]
    ELSE call.reqs[Len(call.reqs)].req.json[1]

\* the keys of the payload of update_task when the keys `falsy_dropped` of
\* the arguments count as not provided when their value is empty
UpdateKeys(arguments, falsy_dropped) ==
    {"id", "projectId"}
    \cup {k \in {"title", "content", "priority"} :
            /\ k \in DOMAIN arguments
            /\ k \in falsy_dropped => arguments[k] # ""}
    \cup {k \in {"dueDate"} :
            /\ "due_date" \in DOMAIN arguments
            /\ "due_date" \in falsy_dropped => arguments.due_date # ""}

\* C9 as stated: the payload of update_task has id, projectId and exactly
\* the fields provided among title, content, priority and due date, an
\* empty title alone counting as not provided.
C9_OnlyTitleDropped ==
    \A c \in DOMAIN calls :
        calls[c].name = "update_task" /\ Sent(calls[c]) =>
            DOMAIN Payload(calls[c]) = UpdateKeys(calls[c].arguments, {"title"})

\* C9 amended: the payload of update_task has id and projectId, with the
\* values given, and exactly the fields provided among title, content,
\* priority and due date, an empty title and an empty due date counting
\* as not provided; title, content and priority are sent as given.
C9_TitleAndDueDateDropped ==
    \A c \in DOMAIN calls :
        calls[c].name = "update_task" /\ Sent(calls[c]) =>
            LET a == calls[c].arguments
                p == Payload(calls[c])
            IN  /\ DOMAIN p = UpdateKeys(a, {"title", "due_date"})
                /\ p.id = a.task_id
                /\ p.projectId = a.project_id
                /\ \A k \in {"title", "content", "priority"} \cap DOMAIN p : p[k] = a[k]

\* C9 witness: an update given an empty title, an empty content, priority
\* 0 and an empty due date is on the wire with content and priority only
C9_Witness ==
    \E c \in DOMAIN calls :
        /\ calls[c].name = "update_task"
        /\ calls[c].pc = "await"
        /\ calls[c].arguments
             = [task_id |-> "t1", project_id |-> "p1", title |-> "", content |-> "",
                priority |-> 0, due_date |-> ""]
        /\ Payload(calls[c]) = [id |-> "t1", projectId |-> "p1", content |-> "", priority |-> 0]

\* C10: a due date that create_task, create_task_with_subtasks or
\* update_task transmits is the one given, followed by "T00:00:00+0000"
\* when the one given has 10 characters, and unchanged otherwise.
C10_DueDateOnTheWire ==
    \A c \in DOMAIN calls :
        /\ calls[c].name \in {"create_task", "create_task_with_subtasks", "update_task"}
        /\ Sent(calls[c])
        /\ "dueDate" \in DOMAIN Payload(calls[c])
        => /\ "due_date" \in DOMAIN calls[c].arguments
           /\ LET D == calls[c].arguments.due_date
              IN  Payload(calls[c]).dueDate
                    = IF Len(D) = 10 THEN D \o "T00:00:00+0000" ELSE D

\* C10 witness: create_task was given "2025-01-30" and its request carries
\* "2025-01-30T00:00:00+0000"
C10_Witness ==
    \E c \in DOMAIN calls :
        /\ calls[c].name = "create_task"
        /\ Sent(calls[c])
        /\ Opt(calls[c].arguments, "due_date") = Some("2025-01-30")
        /\ Payload(calls[c]).dueDate = "2025-01-30T00:00:00+0000"

----------------------------------------------------------------------------
(* The filters over the aggregate: one caller, the read-only tools built   *)
(* on get_all_tasks, over remote records whose tasks differ in priority,   *)
(* tags and due date.                                                      *)

Filter1 ==
    [id |-> "f1", projectId |-> "p1", title |-> "Plan", priority |-> 5,
     tags |-> <<"Work">>, dueDate |-> "2025-01-30T10:00:00.500+0000"]

Filter2 ==
    [id |-> "f2", projectId |-> "p1", title |-> "Mail", priority |-> 0,
     tags |-> <<>>, dueDate |-> "2025-01-30T10:00:00"]

Filter3 == [id |-> "f3", projectId |-> "p1", title |-> "Gym"]

Filter4 ==
    [id |-> "f4", projectId |-> "p2", title |-> "Shop", priority |-> 3,
     tags |-> <<"home", "work", "Work">>, dueDate |-> "2025-01-29"]

Filter5 ==
    [id |-> "f5", projectId |-> "p2", title |-> "Read", priority |-> 1,
     tags |-> <<"WORK", "Zoo">>, dueDate |-> "someday"]

Filter6 ==
    [id |-> "f6", projectId |-> "p2", title |-> "Pay", priority |-> 3,
     tags |-> <<"home">>, dueDate |-> "2025-01-30T09:59:59.000+0000"]

FilterStore ==
    [projects |-> <<[id |-> "p1", name |-> "P1"], [id |-> "p2", name |-> "P2"]>>,
     data     |-> [pid \in {"p1", "p2"} |->
                      IF pid = "p1" THEN <<Filter1, Filter2, Filter3>>
                      ELSE <<Filter4, Filter5, Filter6>>]]

\* datetime.now() of the filters, with and without microseconds
FilterTimes ==
    {"2025-01-28 00:00:00", "2025-01-30 10:00:00", "2025-01-30 10:00:00.200000",
     "2025-01-30 10:00:00.700000"}

FilterArguments(name) ==
    CASE name = "get_high_priority_tasks" ->
            {EmptyDict} \cup {[min_priority |-> m] : m \in {0, 1, 3, 5}}
      [] name = "get_tasks_by_tag" ->
            {[tag |-> t] : t \in {"work", "Work", "HOME", "zoo", "none", ""}}
      [] OTHER -> {EmptyDict}

FilterOutcomes == {200, 403}

InitFilters ==
    /\ dotenv = EnvFile
    /\ setup = NotStarted
    /\ env = Some(Token)
    /\ _api = None
    /\ store = FilterStore
    /\ calls = [c \in {1} |-> Idle]

NextFilters ==
    \/ \E c \in DOMAIN calls,
          name \in {"get_tasks", "get_high_priority_tasks", "get_tasks_by_tag",
                    "get_overdue_tasks", "get_today_tasks", "get_all_tags"} :
          \E arguments \in FilterArguments(name) : Invoke(c, name, arguments)
    \/ \E c \in DOMAIN calls, st \in FilterOutcomes, now \in FilterTimes :
          Respond(c, st, now)

SpecFilters == InitFilters /\ [][NextFilters]_vars

\* the items of seq at the positions idx, in the order of seq
Kept(seq, idx) ==
    LET Rank(i) == Cardinality({j \in idx : j <= i})
    IN  [k \in 1..Cardinality(idx) |-> seq[CHOOSE i \in idx : Rank(i) = k]]

\* the aggregate the client has fetched in this invocation
Aggregate(call) == ExpectedAggregate(store, call.reqs)

\* C11: for every min in {0, 1, 3, 5}, get_tasks_by_priority(min) returns
\* the tasks of the aggregate whose priority (0 when the task has none) is
\* at least min, all of them and no other, in the order of the aggregate.
C11_PriorityAtLeast ==
    \A c \in DOMAIN calls :
        /\ calls[c].name = "get_high_priority_tasks"
        /\ calls[c].value # None
        /\ Get(calls[c].arguments, "min_priority", 3) \in {0, 1, 3, 5}
        => LET agg == Aggregate(calls[c])
               min == Get(calls[c].arguments, "min_priority", 3)
           IN  calls[c].value[1]
                 = Kept(agg, {i \in 1..Len(agg) : Get(agg[i], "priority", 0) >= min})

\* C11 witness: over the six tasks with priorities 5, 0, none, 3, 1, 3 the
\* filter with min 3 returned the first, the fourth and the sixth
C11_Witness ==
    \E c \in DOMAIN calls :
        /\ calls[c].name = "get_high_priority_tasks"
        /\ calls[c].arguments = [min_priority |-> 3]
        /\ calls[c].value # None
        /\ Len(Aggregate(calls[c])) = 6
        /\ [i \in 1..Len(calls[c].value[1]) |-> calls[c].value[1][i].id] = <<"f1", "f4", "f6">>


\* the task has a tag equal to `tag` when letter case is ignored
Tagged(task, tag) ==
    /\ "tags" \in DOMAIN task
    /\ \E i \in 1..Len(task.tags) : Lower(task.tags[i]) = Lower(tag)

\* C12: get_tasks_by_tag(tag) returns the tasks of the aggregate that have
\* a tag equal to the argument when letter case is ignored, all of them
\* and no other, in the order of the aggregate; a task without tags is
\* never returned.
C12_TagIgnoringCase ==
    \A c \in DOMAIN calls :
        calls[c].name = "get_tasks_by_tag" /\ calls[c].value # None =>
            LET agg == Aggregate(calls[c])
                v   == calls[c].value[1]
            IN  /\ v = Kept(agg, {i \in 1..Len(agg) : Tagged(agg[i], calls[c].arguments.tag)})
                /\ \A i \in 1..Len(v) : Get(v[i], "tags", <<>>) # <<>>

\* C12 witness: the query "work" returned the tasks tagged "Work", "work"
\* and "WORK", and not the tasks without tags
C12_Witness ==
    \E c \in DOMAIN calls :
        /\ calls[c].name = "get_tasks_by_tag"
        /\ calls[c].arguments = [tag |-> "work"]
        /\ calls[c].value # None
        /\ Len(Aggregate(calls[c])) = 6
        /\ [i \in 1..Len(calls[c].value[1]) |-> calls[c].value[1][i].id] = <<"f1", "f4", "f5">>


\* the due date as the specification parses it: the text from "+" on and
\* everything past the first 19 characters are dropped
SpecifiedDue(due_date) == fromisoformat(Replace(Slice(SplitHead(due_date, "+"), 19), "T", " "))

\* the task is overdue at `now` as the specification has it
SpecifiedOverdue(task, now) ==
    /\ "dueDate" \in DOMAIN task
    /\ task.dueDate # ""
    /\ SpecifiedDue(task.dueDate) # None
    /\ TupleLess(SpecifiedDue(task.dueDate)[1], fromisoformat(now)[1], 1)

\* C13: when get_overdue_tasks ends with the clock reading `now`, it
\* returns the tasks of the aggregate whose due date is present and
\* parses, once the text after "+" and everything past the first 19
\* characters are dropped, to a time strictly before `now`, all of them and
\* no other, in the order of the aggregate; tasks with a missing or
\* unparseable due date are left out and the operation does not fail.
C13_OverdueBeforeNow ==
    [][\A c \in DOMAIN calls, st \in FilterOutcomes, now \in FilterTimes :
          /\ calls[c].name = "get_overdue_tasks"
          /\ Respond(c, st, now)
          /\ Len(calls'[c].reqs) = 1 + Len(store.projects)
          => LET agg == ExpectedAggregate(store', calls'[c].reqs)
             IN  /\ calls'[c].thrown = None
                 /\ calls'[c].value
                      = Some(Kept(agg, {i \in 1..Len(agg) : SpecifiedOverdue(agg[i], now)}))]_vars


\* the tags of the tasks of seq
TagsOf(seq) ==
    {t \in UNION {IF "tags" \in DOMAIN seq[i]
                  THEN {seq[i].tags[j] : j \in 1..Len(seq[i].tags)} ELSE {}
                  : i \in 1..Len(seq)} : TRUE}

\* C14: get_all_tags returns a list that is in strictly ascending
\* lexicographic order, hence without duplicates, and whose elements are
\* the tags of the tasks of the aggregate, all of them and nothing else.
C14_AllTagsSortedUnion ==
    \A c \in DOMAIN calls :
        calls[c].name = "get_all_tags" /\ calls[c].value # None =>
            LET v == calls[c].value[1]
            IN  /\ \A i \in 1..(Len(v) - 1) : StrLess(v[i], v[i + 1])
                /\ {v[i] : i \in 1..Len(v)} = TagsOf(Aggregate(calls[c]))

\* C14 witness: over tasks tagged Work / home, work, Work / WORK, Zoo /
\* home the list is WORK, Work, Zoo, home, work
C14_Witness ==
    \E c \in DOMAIN calls :
        /\ calls[c].name = "get_all_tags"
        /\ calls[c].value = Some(<<"WORK", "Work", "Zoo", "home", "work">>)
        /\ Len(Aggregate(calls[c])) = 6


----------------------------------------------------------------------------
(* The project reads: one caller, over a listing that is either the        *)
(* initial one or one in which the remote names an identifier twice.       *)

RepeatedStore ==
    [InitialStore EXCEPT !.projects = Append(@, [id |-> "p1", name |-> "P1 again"])]

ProjectArguments(name) ==
    CASE name \in {"get_project_by_id", "get_project_with_data"} ->
            {[project_id |-> "p1"], [project_id |-> "p2"], [project_id |-> "p9"],
             [project_id |-> ""], EmptyDict}
      [] OTHER -> {EmptyDict}

ProjectOutcomes == {200, 204, 404, NoResponse}

InitProjects ==
    /\ dotenv = EnvFile
    /\ setup = NotStarted
    /\ env = Some(Token)
    /\ _api = None
    /\ store \in {InitialStore, RepeatedStore}
    /\ calls = [c \in {1} |-> Idle]

NextProjects ==
    \/ \E c \in DOMAIN calls,
          name \in {"get_projects", "get_project_by_id", "get_project_with_data"} :
          \E arguments \in ProjectArguments(name) : Invoke(c, name, arguments)
    \/ \E c \in DOMAIN calls, st \in ProjectOutcomes, now \in Times : Respond(c, st, now)

SpecProjects == InitProjects /\ [][NextProjects]_vars

\* the positions of the listing whose project has the identifier id
Hits(listing, id) == {i \in 1..Len(listing) : "id" \in DOMAIN listing[i] /\ listing[i].id = id}

\* the least number of a non-empty set of numbers
Least(S) == CHOOSE i \in S : \A j \in S : i <= j

\* C15: get_project_by_id, once its one request GET /project is answered
\* with the listing, returns the first project of the listing whose
\* identifier is the given one, and when the listing has no such project
\* raises ValueError "Project <id> not found" and returns nothing.
C15_FirstMatchOrNotFound ==
    \A c \in DOMAIN calls :
        /\ calls[c].name = "get_project_by_id"
        /\ Len(calls[c].reqs) = 1
        /\ calls[c].reqs[1].status = 200
        => LET id   == calls[c].arguments.project_id
               hits == Hits(store.projects, id)
           IN  /\ calls[c].reqs[1].req.method = "GET"
               /\ Endpoint(calls[c].reqs[1].req) = <<"project">>
               /\ calls[c].pending = None
               /\ IF hits = {}
                  THEN /\ calls[c].value = None
                       /\ calls[c].thrown = Some(ValueError("Project " \o id \o " not found"))
                  ELSE /\ calls[c].value = Some(store.projects[Least(hits)])
                       /\ calls[c].thrown = None

\* C15 witness: p9 is not in the listing and the lookup ended with the
\* not-found error, without a value
C15_Witness ==
    \E c \in DOMAIN calls :
        /\ calls[c].name = "get_project_by_id"
        /\ calls[c].arguments = [project_id |-> "p9"]
        /\ Len(calls[c].reqs) = 1
        /\ calls[c].reqs[1].status = 200
        /\ calls[c].value = None
        /\ calls[c].thrown # None
        /\ calls[c].thrown[1].type = "ValueError"


----------------------------------------------------------------------------
(* The client and its token: the program constructs the client itself,     *)
(* with or without the access_token parameter, before tools are invoked.   *)

\* the values of the parameter access_token: left out, given, given empty
AccessTokens == {None, Some("par"), Some("")}

\* _api = TickTickAPI(access_token), by caller c
Construct(c, access_token) ==
    /\ _api = None
    /\ calls[c].pc # "await"
    /\ LET made  == TickTickAPI(access_token, env)
           fresh == [Idle EXCEPT !.name = "TickTickAPI",
                                 !.arguments = IF access_token = None THEN EmptyDict
                                               ELSE [access_token |-> access_token[1]]]
       IN  IF made.exc # None
           THEN /\ _api' = _api
                /\ calls' = [calls EXCEPT ![c] = [fresh EXCEPT !.pc = "raised",
                                                              !.escaped = made.exc]]
           ELSE /\ _api' = made.val
                /\ calls' = [calls EXCEPT ![c] = [fresh EXCEPT !.pc = "returned",
                                                              !.value = made.val]]
    /\ UNCHANGED <<env, store, dotenv, setup>>

ClientOutcomes == {200, 403}

InitClient ==
    /\ dotenv = EnvFile
    /\ setup = NotStarted
    /\ env \in {None, Some(Token)}
    /\ _api = None
    /\ store = InitialStore
    /\ calls = [c \in {1} |-> Idle]

NextClient ==
    \/ \E c \in DOMAIN calls, access_token \in AccessTokens : Construct(c, access_token)
    \/ \E c \in DOMAIN calls, name \in {"get_projects", "get_tasks", "complete_task"} :
          \E arguments \in ArgumentsOf(name) : Invoke(c, name, arguments)
    \/ \E c \in DOMAIN calls, st \in ClientOutcomes, now \in Times : Respond(c, st, now)

SpecClient == InitClient /\ [][NextClient]_vars

\* the requests of an invocation: those answered and the one in flight
Requests(call) ==
    {call.reqs[i].req : i \in 1..Len(call.reqs)} \cup {call.pending[i] : i \in 1..Len(call.pending)}

\* in this step caller c constructs the client
Constructs(c) == calls'[c] # calls[c] /\ calls'[c].name = "TickTickAPI"

\* the parameter of that construction, when a token was passed
Passed(call) == Opt(call.arguments, "access_token")

\* C16: a construction with no token, neither passed nor in the
\* environment, raises ValueError "TICKTICK_ACCESS_TOKEN is required ..."
\* and there is no client; a construction with a token passed makes the
\* client with that token, and otherwise with the token of the environment;
\* every request carries Authorization: Bearer <the client's token>; and
\* the client and its token, once there, do not change.
C16_TokenAndHeader ==
    /\ [](\A c \in DOMAIN calls : \A req \in Requests(calls[c]) :
              /\ _api # None
              /\ req.headers = [Authorization |-> "Bearer " \o _api[1].access_token])
    /\ [][\A c \in DOMAIN calls :
             Constructs(c) =>
                 LET passed == Passed(calls'[c])
                     token  == IF passed # None /\ passed[1] # "" THEN passed ELSE env
                 IN  IF token = None
                     THEN /\ _api' = None
                          /\ calls'[c].value = None
                          /\ calls'[c].escaped # None
                          /\ calls'[c].escaped[1].type = "ValueError"
                          /\ StartsWith(calls'[c].escaped[1].msg,
                                        "TICKTICK_ACCESS_TOKEN is required")
                     ELSE /\ _api' # None
                          /\ _api'[1].access_token = token[1]
                          /\ calls'[c].value = _api'
                          /\ calls'[c].escaped = None]_vars
    /\ [][_api # None => _api' = _api]_vars

\* C16 witness: the client was constructed with the token "par" passed
\* while the environment holds another token, and its request GET /project
\* carries Bearer par
C16_Witness ==
    /\ env = Some(Token)
    /\ _api # None
    /\ _api[1].access_token = "par"
    /\ \E c \in DOMAIN calls :
          /\ calls[c].name = "get_projects"
          /\ calls[c].pending # None
          /\ calls[c].pending[1].headers = [Authorization |-> "Bearer par"]

\* C16 second case reached: no token anywhere, the construction raised
C16_NoTokenRaised ==
    /\ env = None
    /\ _api = None
    /\ \E c \in DOMAIN calls : calls[c].name = "TickTickAPI" /\ calls[c].escaped # None


----------------------------------------------------------------------------
(* Requests on the wire *)

\* the requests of an invocation in the order they were issued, the one in
\* flight last, as <<method, endpoint, json>>
Issued(call) ==
    [i \in 1..(Len(call.reqs) + Len(call.pending)) |->
        LET req == IF i <= Len(call.reqs) THEN call.reqs[i].req ELSE call.pending[1]
        IN  <<req.method, Endpoint(req), req.json>>]

\* the requests of an aggregate over the projects of `listing`
AggregateRequests(listing) ==
    <<(<<"GET", <<"project">>, None>>)>>
    \o [i \in 1..Len(listing) |-> <<"GET", <<"project", listing[i].id, "data">>, None>>]

IsPrefix(a, b) == Len(a) <= Len(b) /\ a = SubSeq(b, 1, Len(a))

\* C17: no request is repeated.  get_projects issues one GET /project and
\* returns its body as it is; complete_task issues one POST
\* /project/{project_id}/task/{task_id}/complete without a body; an
\* aggregate issues GET /project and then one GET /project/{id}/data per
\* listed project, in listing order, never one of them twice, and when it
\* returns it has issued exactly 1 + n of them, also when fetches failed
\* with 401 or 403.
C17_SingleAttempt ==
    \A c \in DOMAIN calls :
        LET call == calls[c]
            a    == call.arguments
        IN  /\ call.name = "get_projects" /\ call.pc # "raised" =>
                  /\ Issued(call) = <<(<<"GET", <<"project">>, None>>)>>
                  /\ call.value # None /\ call.reqs[1].status = 200
                        => call.value = Some(store.projects)
            /\ call.name = "complete_task" /\ Sent(call) =>
                  Issued(call) = <<(<<"POST", <<"project", a.project_id, "task", a.task_id,
                                              "complete">>, None>>)>>
            /\ IsAggregate(call) /\ Sent(call) =>
                  LET listing == IF call.reqs # <<>> /\ call.reqs[1].status = 200
                                 THEN store.projects ELSE <<>>
                  IN  /\ IsPrefix(Issued(call), AggregateRequests(store.projects))
                      /\ call.value # None => Issued(call) = AggregateRequests(listing)

\* C17 witness: an aggregate over two projects returned after three
\* requests, the fetch of the first project having failed with 403
C17_Witness ==
    \E c \in DOMAIN calls :
        /\ IsAggregate(calls[c])
        /\ calls[c].value # None
        /\ Len(calls[c].reqs) = 3
        /\ calls[c].reqs[2].status = 403
        /\ calls[c].reqs[3].status = 200
        /\ Len(store.projects) = 2


----------------------------------------------------------------------------
(* Reads after the remote records changed: two callers that take turns     *)
(* (an invocation starts when none is in flight), reads and writes by the  *)
(* client, and another client of the remote that deletes checklist items   *)
(* between invocations.                                                    *)

FreshCallers == {1, 2}

FreshReads == {"get_projects", "get_project_by_id", "get_tasks", "get_all_tags"}

FreshWrites == {"update_project", "delete_task"}

FreshArguments(name) ==
    CASE name = "get_project_by_id" -> {[project_id |-> "p2"]}
      [] name = "get_tasks" -> {EmptyDict, [project_id |-> "p1"]}
      [] name = "update_project" -> {[project_id |-> "p2", name |-> "Home"]}
      [] name = "delete_task" -> {[task_id |-> "t2", project_id |-> "p1"]}
      [] OTHER -> {EmptyDict}

FreshOutcomes == {200, 403}

\* no invocation is in flight
Quiet == \A c \in DOMAIN calls : calls[c].pc # "await"

InitFresh ==
    /\ dotenv = EnvFile
    /\ setup = NotStarted
    /\ env = Some(Token)
    /\ _api = None
    /\ store = InitialStore
    /\ calls = [c \in FreshCallers |-> Idle]

NextFresh ==
    \/ \E c \in DOMAIN calls, name \in FreshReads \cup FreshWrites :
          \E arguments \in FreshArguments(name) : Quiet /\ Invoke(c, name, arguments)
    \/ \E c \in DOMAIN calls, st \in FreshOutcomes, now \in Times : Respond(c, st, now)
    \/ \E j \in 1..MaxItems : Quiet /\ RemoteEdit("p1", 1, j)

SpecFresh == InitFresh /\ [][NextFresh]_vars

\* in this step the invocation of caller c returns a value
Returns(c) ==
    /\ calls[c].pc = "await"
    /\ calls'[c].pc = "returned"
    /\ calls'[c].value # None

\* what the read `call` returns when every one of its requests is answered
\* from the records st
FreshValue(call, st) ==
    LET pid == Opt(call.arguments, "project_id")
    IN  CASE call.name = "get_projects" -> st.projects
          [] call.name = "get_project_by_id" -> st.projects[Least(Hits(st.projects, pid[1]))]
          [] call.name = "get_tasks" /\ pid # None -> st.data[pid[1]]
          [] call.name = "get_tasks" /\ pid = None -> ExpectedAggregate(st, call.reqs)
          [] call.name = "get_all_tags" ->
                LET tags == TagsOf(ExpectedAggregate(st, call.reqs))
                IN  Kept(Sorted(tags), 1..Cardinality(tags))

\* C18: a read (get_projects, get_project_by_id, get_tasks with and
\* without project, get_all_tags) that returns a value returns what the
\* remote holds at that moment, whatever reads and changes of the remote
\* records came before it.
C18_ReadsAreFresh ==
    [][\A c \in DOMAIN calls :
          Returns(c) /\ calls'[c].name \in FreshReads =>
              calls'[c].value[1] = FreshValue(calls'[c], store)]_vars

\* C18 witness: caller 1 listed the projects, project p2 was then renamed,
\* and the listing of caller 2 shows the new name while the earlier
\* listing shows the old one
C18_Witness ==
    /\ calls[1].name = "get_projects"
    /\ calls[1].value = Some(InitialStore.projects)
    /\ calls[2].name = "get_projects"
    /\ calls[2].value = Some(store.projects)
    /\ store.projects[2].name = "Home"


----------------------------------------------------------------------------
(* Writes after an aggregate read: two callers that take turns, one client *)
(* for both; the aggregate annotates the tasks it returns and the writes   *)
(* of every kind follow.                                                   *)

AnnotateCallers == {1, 2}

AnnotateWrites ==
    {"update_task", "add_subtask", "create_task", "create_task_with_subtasks",
     "complete_task", "update_project", "create_project"}

AnnotateArguments(name) ==
    CASE name = "update_task" ->
            {[task_id |-> "t1", project_id |-> "p1", title |-> "Report v2", priority |-> 3]}
      [] name = "add_subtask" -> {[task_id |-> "t1", project_id |-> "p1", subtask_title |-> "C"]}
      [] name = "create_task" -> {[title |-> "T", project_id |-> "p1", content |-> "c"]}
      [] name = "create_task_with_subtasks" ->
            {[title |-> "T", project_id |-> "p1", subtasks |-> <<[title |-> "a"]>>]}
      [] name = "complete_task" -> {[task_id |-> "t2", project_id |-> "p1"]}
      [] name = "update_project" -> {[project_id |-> "p2", name |-> "Home"]}
      [] name = "create_project" -> {[name |-> "P3"]}
      [] OTHER -> {EmptyDict}

AnnotateOutcomes == {200, 403}

InitAnnotate ==
    /\ dotenv = EnvFile
    /\ setup = NotStarted
    /\ env = Some(Token)
    /\ _api = None
    /\ store = InitialStore
    /\ calls = [c \in AnnotateCallers |-> Idle]

NextAnnotate ==
    \/ \E c \in DOMAIN calls, name \in {"get_tasks"} \cup AnnotateWrites :
          \E arguments \in AnnotateArguments(name) : Quiet /\ Invoke(c, name, arguments)
    \/ \E c \in DOMAIN calls, st \in AnnotateOutcomes, now \in Times : Respond(c, st, now)

SpecAnnotate == InitAnnotate /\ [][NextAnnotate]_vars

\* the JSON bodies of the requests of an invocation
Bodies(call) == {req.json[1] : req \in {q \in Requests(call) : q.json # None}}

\* the dict, or a checklist item in it, has the key of the annotation
NamesProject(d) ==
    \/ "_project_name" \in DOMAIN d
    \/ /\ "items" \in DOMAIN d
       /\ \E i \in 1..Len(d.items) : "_project_name" \in DOMAIN d.items[i]

\* C19: no request of the client carries the key _project_name that the
\* aggregate adds to the tasks it returns, neither in the body nor in an
\* item of its checklist: not update_task's, not add_subtask's, not any
\* other write's, whatever was read before.
C19_ProjectNameNotSent ==
    \A c \in DOMAIN calls : \A body \in Bodies(calls[c]) : ~NamesProject(body)

\* C19 witness: caller 1 holds the aggregate, whose tasks carry the
\* annotation, and the write of add_subtask by caller 2 that followed is
\* on the wire with the keys id, projectId and items only
C19_Witness ==
    /\ calls[1].name = "get_tasks"
    /\ calls[1].value # None
    /\ Len(calls[1].value[1]) = 3
    /\ \A i \in 1..3 : "_project_name" \in DOMAIN calls[1].value[1][i]
    /\ calls[2].name = "add_subtask"
    /\ calls[2].pc = "await"
    /\ calls[2].pending[1].method = "POST"
    /\ DOMAIN calls[2].pending[1].json[1] = {"id", "projectId", "items"}


----------------------------------------------------------------------------
(* Subtasks given at creation: one caller, create_task_with_subtasks over  *)
(* the lists of at most MaxSubtasks subtasks.                              *)

\* the longest list of subtasks a caller gives
MaxSubtasks == 3

\* a subtask with its status left out, given as 1, given as 0, and one
\* with its title left out
Subtasks ==
    {[title |-> "a"], [title |-> "b", status |-> 1], [title |-> "c", status |-> 0],
     [status |-> 1]}

SubtaskLists == UNION {[1..n -> Subtasks] : n \in 0..MaxSubtasks}

SubtaskArguments ==
    {[title |-> "T"]} \cup {[title |-> "T", subtasks |-> l] : l \in SubtaskLists}

SubtaskOutcomes == {200, 500}

InitSubtasks ==
    /\ dotenv = EnvFile
    /\ setup = NotStarted
    /\ env = Some(Token)
    /\ _api = None
    /\ store = InitialStore
    /\ calls = [c \in {1} |-> Idle]

NextSubtasks ==
    \/ \E c \in DOMAIN calls, arguments \in SubtaskArguments :
          Invoke(c, "create_task_with_subtasks", arguments)
    \/ \E c \in DOMAIN calls, st \in SubtaskOutcomes, now \in Times : Respond(c, st, now)

SpecSubtasks == InitSubtasks /\ [][NextSubtasks]_vars

\* C20: when create_task_with_subtasks is given a non-empty list of
\* subtasks, the request carries a checklist with one item per subtask, in
\* the order given, the i-th item (from zero) having sort position i, the
\* title given for it and the status given for it, 0 when none is given,
\* and nothing else.
C20_SubtasksAsChecklist ==
    \A c \in DOMAIN calls :
        /\ calls[c].name = "create_task_with_subtasks"
        /\ Sent(calls[c])
        /\ "subtasks" \in DOMAIN calls[c].arguments
        /\ calls[c].arguments.subtasks # <<>>
        => LET given == calls[c].arguments.subtasks
               p     == Payload(calls[c])
           IN  /\ "items" \in DOMAIN p
               /\ Len(p.items) = Len(given)
               /\ \A i \in 1..Len(given) :
                     /\ DOMAIN p.items[i] = {"title", "status", "sortOrder"}
                     /\ p.items[i].sortOrder = i - 1
                     /\ "title" \in DOMAIN given[i] => p.items[i].title = given[i].title
                     /\ p.items[i].status
                          = IF "status" \in DOMAIN given[i] THEN given[i].status ELSE 0

\* C20 witness: the subtasks b (status 1), a (no status), c (status 0)
\* are on the wire as the items b/1/0, a/0/1, c/0/2
C20_Witness ==
    \E c \in DOMAIN calls :
        /\ calls[c].name = "create_task_with_subtasks"
        /\ calls[c].pc = "await"
        /\ "subtasks" \in DOMAIN calls[c].arguments
        /\ calls[c].arguments.subtasks
             = <<[title |-> "b", status |-> 1], [title |-> "a"], [title |-> "c", status |-> 0]>>
        /\ Payload(calls[c]).items
             = <<[title |-> "b", status |-> 1, sortOrder |-> 0],
                 [title |-> "a", status |-> 0, sortOrder |-> 1],
                 [title |-> "c", status |-> 0, sortOrder |-> 2]>>


----------------------------------------------------------------------------
(* Sort positions of a checklist written back by add_subtask *)

\* C21: in the checklist add_subtask writes back, whatever the sort
\* positions of the items it read (they need not be 0..n-1 after another
\* client deleted an item), the sort positions are pairwise distinct and
\* the sort position of the new item, the last one, is greater than that
\* of every item read.
C21_SortPositionsDistinct ==
    \A c \in DOMAIN calls :
        /\ calls[c].name = "add_subtask"
        /\ calls[c].pending # None
        /\ calls[c].pending[1].method = "POST"
        => LET items == calls[c].pending[1].json[1].items
               n     == Len(items)
           IN  /\ \A i, j \in 1..n : i # j => items[i].sortOrder # items[j].sortOrder
               /\ \A i \in 1..(n - 1) : items[i].sortOrder < items[n].sortOrder


----------------------------------------------------------------------------
(* get_tasks for one project *)

\* C23: get_tasks with a non-empty project_id issues the one request GET
\* /project/{project_id}/data; answered with 200 it returns the tasks of
\* that project as the remote has them, without the key _project_name;
\* when the exchange fails, with 401 or 403 as with any other status or
\* with no response, the failure is raised and no list is returned.  With
\* project_id "" it starts the aggregate, with GET /project.
C23_SingleProjectTasks ==
    \A c \in DOMAIN calls :
        calls[c].name = "get_tasks" /\ Sent(calls[c]) =>
            LET call == calls[c]
                pid  == Opt(call.arguments, "project_id")
            IN  IF pid # None /\ pid[1] # ""
                THEN /\ Issued(call) = <<(<<"GET", <<"project", pid[1], "data">>, None>>)>>
                     /\ \A i \in 1..Len(call.reqs) :
                           IF call.reqs[i].status = 200
                           THEN /\ call.value = Some(store.data[pid[1]])
                                /\ \A j \in 1..Len(call.value[1]) :
                                      "_project_name" \notin DOMAIN call.value[1][j]
                                /\ call.thrown = None
                           ELSE IF IsSuccess(call.reqs[i].status)
                           THEN call.value = Some(<<>>) /\ call.thrown = None
                           ELSE /\ call.value = None
                                /\ call.thrown
                                     = Some(IF call.reqs[i].status = NoResponse
                                            THEN TransportError
                                            ELSE HTTPStatusError(call.reqs[i].status))
                ELSE /\ Issued(call)[1] = <<"GET", <<"project">>, None>>
                     /\ IsPrefix(Issued(call), AggregateRequests(store.projects))

\* C23 witness: the fetch of project p1 was answered with 403 and get_tasks
\* raised the status error, returning no list
C23_Witness ==
    \E c \in DOMAIN calls :
        /\ calls[c].name = "get_tasks"
        /\ calls[c].arguments = [project_id |-> "p1"]
        /\ Len(calls[c].reqs) = 1
        /\ calls[c].reqs[1].status = 403
        /\ calls[c].value = None
        /\ calls[c].thrown = Some(HTTPStatusError(403))

\* C23, further cases reached: the tasks of p1 returned without the
\* annotation, and the aggregate started for project_id ""
C23_TasksReturned ==
    \E c \in DOMAIN calls :
        /\ calls[c].name = "get_tasks"
        /\ calls[c].arguments = [project_id |-> "p1"]
        /\ calls[c].value = Some(<<Task1, Task2>>)

C23_EmptyIdAggregates ==
    \E c \in DOMAIN calls :
        /\ calls[c].name = "get_tasks"
        /\ calls[c].arguments = [project_id |-> ""]
        /\ calls[c].value # None
        /\ Len(calls[c].reqs) = 3


----------------------------------------------------------------------------
(* The setup helper run by the user, once or again: each run waits for the *)
(* callback, exchanges the code and, on a 200, rewrites .env.              *)

\* how many times the user runs the helper
MaxRuns == 3

\* the requests the browser, or anything else, sends to localhost:8080
CallbackRequests ==
    {[path |-> "/callback", query |-> [code |-> <<"c1">>]],
     [path |-> "/callback", query |-> [error |-> <<"access_denied">>]],
     [path |-> "/favicon.ico", query |-> EmptyDict]}

TokenOutcomes == {200, 400, NoResponse}

\* the JSON the token endpoint answers with
TokenBodies == {[access_token |-> "aaa"], [access_token |-> "bbb"], EmptyDict}

\* python get_token.py, lines 62-86: the process starts with auth_code =
\* None, opens the browser and listens
get_access_token ==
    /\ setup.pc \in {"idle", "done", "raised"}
    /\ setup.runs < MaxRuns
    /\ setup' = [NotStarted EXCEPT !.pc = "waiting", !.runs = setup.runs + 1]
    /\ UNCHANGED <<env, _api, store, calls, dotenv>>

\* lines 88-107: server.handle_request() serves one request; the loop goes
\* on until auth_code is set, and then the code is posted
handle_request(request) ==
    /\ setup.pc = "waiting"
    /\ LET handled == do_GET(request, setup.auth_code)
           seen    == [setup EXCEPT !.auth_code = handled.auth_code,
                                    !.answered = Some(handled.status)]
       IN  setup' = IF handled.auth_code = None THEN seen
                    ELSE [seen EXCEPT !.pc = "exchanging",
                                      !.pending = Some(TokenRequest(handled.auth_code[1]))]
    /\ UNCHANGED <<env, _api, store, calls, dotenv>>

\* lines 97-138: the exchange ends with outcome st and JSON `data`
token_response(st, data) ==
    /\ setup.pc = "exchanging"
    /\ IF st = NoResponse
       THEN /\ setup' = [setup EXCEPT !.pc = "raised", !.pending = None]
            /\ dotenv' = dotenv
       ELSE IF st = 200
       THEN LET access_token == Opt(data, "access_token")
            IN  /\ dotenv' = Substituted(dotenv, access_token)
                /\ setup' = [setup EXCEPT !.pc = "done", !.pending = None,
                                          !.status_code = Some(st),
                                          !.returned = access_token]
       ELSE /\ setup' = [setup EXCEPT !.pc = "done", !.pending = None,
                                      !.status_code = Some(st), !.returned = None]
            /\ dotenv' = dotenv
    /\ UNCHANGED <<env, _api, store, calls>>

InitToken ==
    /\ env = None
    /\ _api = None
    /\ store = InitialStore
    /\ calls = [c \in {1} |-> Idle]
    /\ dotenv = EnvFile
    /\ setup = NotStarted

NextToken ==
    \/ get_access_token
    \/ \E request \in CallbackRequests : handle_request(request)
    \/ \E st \in TokenOutcomes, data \in TokenBodies : token_response(st, data)

SpecToken == InitToken /\ [][NextToken]_vars

\* the lines of a text
RECURSIVE SplitLines(_)
SplitLines(text) ==
    IF ~Contains(text, "\n") THEN <<text>>
    ELSE LET head == SplitHead(text, "\n")
         IN  <<head>> \o SplitLines(SubSeq(text, Len(head) + 2, Len(text)))

\* the values of the entries TICKTICK_ACCESS_TOKEN of an environment file
TokenEntries(text) ==
    LET key    == "TICKTICK_ACCESS_TOKEN="
        lines  == SplitLines(text)
        IsEntry(line) == StartsWith(line, key)
        found  == SelectSeq(lines, IsEntry)
    IN  [i \in 1..Len(found) |-> SubSeq(found[i], Len(key) + 1, Len(found[i]))]

\* C22: when a run of the helper ends after the token endpoint answered
\* 200 with a token, the entry TICKTICK_ACCESS_TOKEN of .env is exactly
\* that token, whatever the entry held before; and when the endpoint
\* answers another status, or does not answer, .env is left as it was.
C22_EntryIsNewToken ==
    [][setup.pc = "exchanging" /\ setup'.pc # "exchanging" =>
          IF setup'.status_code = Some(200)
          THEN setup'.returned # None => TokenEntries(dotenv') = <<setup'.returned[1]>>
          ELSE dotenv' = dotenv]_vars


====
